---------------------------- MODULE Spec2Model ----------------------------
(* A model of the debugfs table readers of the cxgb4 driver                *)
(* (drivers/net/ethernet/chelsio/cxgb4/cxgb4_debugfs.c): the generic       *)
(* seq_tab cursor, the firmware device log, the mailbox command log, the   *)
(* MPS TCAM reader and the bit-field decoder.                              *)
(*                                                                         *)
(* One debugfs file is open at a time; `file` says which one.  The         *)
(* seq_file core drives a session through start / show / next / stop, and  *)
(* may stop a traversal and start it again at a position.                  *)
EXTENDS Integers, Sequences, FiniteSets, TLC

VARIABLES
    file,       \* which debugfs file this session reads
    pc,         \* "closed", "opening", "open" or "failed"
    ret,        \* return value of the last open / trim call
    it,         \* traversal state: "idle", "fresh" (v not shown), "shown", "end"
    pos,        \* loff_t *pos of the seq_file
    v,          \* the iterator cookie the last start/next returned
    lastop,     \* "none", "start" or "next": the call that produced v
    startpos,   \* the position the running traversal was started at
    nadv,       \* number of next calls of the running traversal
    ttrace,     \* the cookies start/next returned in the running traversal
    out,        \* what show rendered in the running traversal
    tb,         \* struct seq_tab of a seq_tab session
    rows0,      \* rows as given to seq_open_tab
    lasttrim,   \* the last seq_tab_trim call: [n, before, ret], n = -1 if none
    hwgen,      \* generation of the device contents a seq_tab capture reads
    opengen,    \* hwgen at the time of the capture
    fwlog,      \* the firmware's device log in adapter memory
    dparams,    \* adap->params.devlog: start, size (in entries)
    dinfo,      \* struct devlog_info of a devlog session
    mbox_log,   \* adapter->mbox_log: size, cursor, seqno, entries
    atopen,     \* the device log / mailbox log / TCAM as it was when open returned
    chip,       \* adap->params: chip version and arch.mps_rplc_size
    tcam,       \* the MPS TCAM and classification SRAM of the device, by index
    tcam_ctl,   \* the device's MPS_CLS_TCAM_DATA2_CTL register (T6)
    fdin,       \* the word and the field descriptors given to field_desc_show
    fdout,      \* what field_desc_show printed: its fields, in order
    wbuf,       \* the bytes the user writes to the file
    wtoks,      \* the words the bytes written are made of
    adap,       \* the adapter: trace_rss, the tracer of the file, chan_map
    hw,         \* the registers the write handler wrote, in order
    rss_key,    \* the RSS secret key of the device, key[0] first
    mb_buf,     \* the bytes each caller of mbox_write writes
    mb_pc,      \* where each caller of mbox_write is
    mb_data,    \* data[] of each caller, as sscanf left it
    mb_i,       \* the count of data words each caller has written
    mb_ret,     \* what mbox_write returned to each caller
    mb_seen,    \* <<the owner each caller read from the control register>>
    mailbox,    \* the mailbox of the device: data words, owner, valid
    mb_sent,    \* the data words in the mailbox at each write of the control word
    mb_fw,      \* the callers that wrote a data word to a mailbox owned by FW
    mi_regs,    \* the registers meminfo_show reads
    mi_out,     \* what meminfo_show made: ranges, mem[], the lines printed
    cap_run,    \* the capturing handlers that run
    cap_in,     \* what they are given: chip, log place and size, pos, count
    cap_pc,     \* where each handler is
    cap_ret,    \* what each handler returned
    cap_rc,     \* what the capture routine of each handler returned
    cap_tab,    \* the buffer of each handler: state, rows, file position
    cap_log,    \* what each handler did, in order
    win0_lock,  \* adap->win0_lock: <<>> or <<the handler that holds it>>
    memwin,     \* memory window 0: <<the handler that pointed it last>>
    cap_from,   \* <<the handler whose memory each capture read>>
    trc_ext,    \* mps_trc_write: the nibbles counted, the words written
    s_mem,      \* mps_trc_write: the buffer s, the bytes used, the kfrees
    rd_pc,      \* where each of two readers of the T6 TCAM is in mps_tcam_show
    rd_idx,     \* the row each reader shows
    rd_x,       \* tcamx as each reader read it
    rd_y,       \* tcamy as each reader read it
    rd_out      \* <<the row each reader printed>>

tabvars == <<tb, rows0, lasttrim, hwgen, opengen>>
logvars == <<fwlog, dparams, dinfo, mbox_log, atopen>>
tcamvars == <<chip, tcam, tcam_ctl>>
fdvars == <<fdin, fdout>>
wrvars == <<wbuf, wtoks, adap, hw, rss_key>>
mbvars == <<mb_buf, mb_pc, mb_data, mb_i, mb_ret, mb_seen, mailbox, mb_sent, mb_fw>>
memvars == <<mi_regs, mi_out>>
capvars == <<cap_run, cap_in, cap_pc, cap_ret, cap_rc, cap_tab, cap_log,
             win0_lock, memwin, cap_from>>
trcvars == <<trc_ext, s_mem>>
rdvars == <<rd_pc, rd_idx, rd_x, rd_y, rd_out>>
itervars == <<it, pos, v, lastop, startpos, nadv, ttrace, out>>

---------------------------------------------------------------------------
(* Bounds of the model.                                                    *)
MaxRows == 3
MaxWidth == 2
MaxHwGen == 1
TabDataAddr == 16
MaxEntries == 3
MaxRecords == 4
MaxMacAddr == 2

(* Program constants.                                                      *)
NULL == 0
SEQ_START_TOKEN == 1
EINVAL == 22
ENOMEM == 12
ENXIO == 6
EIO == 5
U16Max == 65535
EFAULT == 14
EFBIG == 27
TRACE_LEN == 112
TFMINPKTSIZE_M == 511
MAX_NPORTS == 4
TRC_PORT_NONE == 255
TRC_RSS_ENABLE == 51
TRC_RSS_DISABLE == 19
EBUSY == 16
X_MBOWNER_NONE == 0
X_MBOWNER_FW == 1
X_MBOWNER_PL == 2
MboxWords == 8

---------------------------------------------------------------------------
(* C integer division truncates toward zero.                               *)
CDiv(a, b) == IF a >= 0 THEN a \div b ELSE -((-a) \div b)

---------------------------------------------------------------------------
(* Generic seq_file support for a table of rows x width bytes.             *)

seq_tab_get_idx_nohdr(t, p) ==
    IF p >= t.rows THEN NULL ELSE t.data + p * t.width

seq_tab_get_idx_offby1(t, p) ==
    LET q == p - t.skip_first
    IN  IF q > t.rows THEN NULL ELSE t.data + q * t.width

seq_tab_get_idx(t, p) ==
    LET q == p - t.skip_first
    IN  IF q >= t.rows THEN NULL ELSE t.data + q * t.width

seq_tab_start(t, p) ==
    IF t.skip_first # 0 /\ p = 0
    THEN SEQ_START_TOKEN
    ELSE seq_tab_get_idx(t, p)

(* seq_tab_next: the new cookie and the new *pos.                          *)
seq_tab_next(t, p) ==
    LET nv == seq_tab_get_idx(t, p + 1)
    IN  [v |-> nv, pos |-> IF nv # NULL THEN p + 1 ELSE p]

(* The row renderers (cimq_show and the like): the header for the start    *)
(* token, else the width bytes of the row at cookie w.                     *)
row_show(t, w, idx) ==
    IF w = SEQ_START_TOKEN
    THEN [kind |-> "hdr"]
    ELSE [kind |-> "row", idx |-> idx,
          bytes |-> SubSeq(t.buf, (w - t.data) + 1, (w - t.data) + t.width)]

seq_tab_show(t, w) == row_show(t, w, CDiv(w - t.data, t.width))

(* What a capture routine stores for byte a of the device data: the        *)
(* device's contents are identified by generation and address.             *)
Capture(gen, n) == [a \in 1..n |-> <<gen, a - 1>>]

seq_open_tab(rows, width, have_header, gen) ==
    [rows |-> rows, width |-> width,
     skip_first |-> IF have_header # 0 THEN 1 ELSE 0,
     data |-> TabDataAddr, buf |-> Capture(gen, rows * width)]

seq_tab_trim_nocheck(t, new_rows) ==
    [tb |-> [t EXCEPT !.rows = new_rows], ret |-> 0]

seq_tab_trim(t, new_rows) ==
    IF new_rows > t.rows
    THEN [tb |-> t, ret |-> -EINVAL]
    ELSE [tb |-> [t EXCEPT !.rows = new_rows], ret |-> 0]

NoTrim == [n |-> -1, before |-> 0, ret |-> 0]

NoTab == [rows |-> 0, width |-> 1, skip_first |-> 0, data |-> TabDataAddr,
          buf |-> <<>>]

---------------------------------------------------------------------------
(* 32-bit unsigned values are kept as two 16-bit halves <<hi, lo>>.        *)

U32Max == <<U16Max, U16Max>>

Lt32(a, b) == a[1] < b[1] \/ (a[1] = b[1] /\ a[2] < b[2])

(* be32_to_cpu of the four bytes of a big-endian word in memory.           *)
be32_to_cpu(b) == <<b[1] * 256 + b[2], b[3] * 256 + b[4]>>

---------------------------------------------------------------------------
(* The firmware device log.                                                *)

(* An entry of the log in adapter memory: the timestamp (0: unused) and    *)
(* the big-endian bytes of the sequence number.                            *)
UnusedEntry == [timestamp |-> 0, seqno |-> <<0, 0, 0, 0>>]

SeqBytes == {<<0, 0, 0, 1>>, <<0, 0, 0, 3>>, <<0, 0, 0, 5>>,
             <<255, 255, 255, 255>>}

LogEntries == {UnusedEntry} \cup [timestamp : {1}, seqno : SeqBytes]

Logs == UNION {[1..n -> LogEntries] : n \in 0..MaxEntries}

(* What the firmware writes when it logs again.                            *)
NewEntry == [timestamp |-> 2, seqno |-> <<0, 0, 1, 0>>]

NoDinfo == [nentries |-> 0, first |-> 0, log |-> <<>>]

(* The scan of devlog_open for the lowest sequence number, from index on.  *)
RECURSIVE devlog_scan(_, _, _, _)
devlog_scan(log, index, fseqno, first) ==
    IF index >= Len(log) THEN first
    ELSE LET e == log[index + 1]
             seqno == be32_to_cpu(e.seqno)
         IN  IF e.timestamp = 0
             THEN devlog_scan(log, index + 1, fseqno, first)
             ELSE IF Lt32(seqno, fseqno)
                  THEN devlog_scan(log, index + 1, seqno, index)
                  ELSE devlog_scan(log, index + 1, fseqno, first)

devlog_get_idx_offby1(d, p) ==
    IF p > d.nentries + 1 THEN NULL ELSE p + 1

devlog_get_idx(d, p) ==
    IF p > d.nentries THEN NULL ELSE p + 1

devlog_start(d, p) ==
    IF p # 0 THEN devlog_get_idx(d, p) ELSE SEQ_START_TOKEN

devlog_next(d, p) == [v |-> devlog_get_idx(d, p + 1), pos |-> p + 1]

(* e = &dinfo->log[index]: the entry is read from the session's copy; fw   *)
(* is the log in adapter memory, which the code does not look at.          *)
devlog_entry_live(d, fw, index) ==
    IF index < Len(fw) THEN fw[index + 1] ELSE UnusedEntry

devlog_entry(d, fw, index) == d.log[index + 1]

(* What a log renderer emits for an entry: nothing (kind "skip") for an    *)
(* unused one.  slot is the physical index it looked at.                   *)
render_entry_noskip(e, slot, seqno) ==
    [kind |-> "entry", slot |-> slot, seqno |-> seqno,
     timestamp |-> e.timestamp]

render_entry(e, slot, seqno) ==
    IF e.timestamp = 0
    THEN [kind |-> "skip", slot |-> slot]
    ELSE [kind |-> "entry", slot |-> slot, seqno |-> seqno,
          timestamp |-> e.timestamp]

devlog_show(d, fw, w) ==
    IF w = SEQ_START_TOKEN
    THEN [kind |-> "hdr"]
    ELSE LET fidx == w - 2
             i0 == d.first + fidx
             index == IF i0 >= d.nentries THEN i0 - d.nentries ELSE i0
         IN  IF index < 0 \/ index >= Len(d.log)
             THEN [kind |-> "oob", slot |-> index]
             ELSE LET e == devlog_entry(d, fw, index)
                  IN  render_entry(e, index, be32_to_cpu(e.seqno))

---------------------------------------------------------------------------
(* The mailbox command log.  Its entries keep the sequence number in CPU   *)
(* byte order, as a number.                                                *)

NoMboxLog == [size |-> 1, cursor |-> 0, seqno |-> 0,
              entries |-> <<[timestamp |-> 0, seqno |-> 0]>>]

NewMboxLog(n) == [size |-> n, cursor |-> 0, seqno |-> 0,
                  entries |-> [i \in 1..n |-> [timestamp |-> 0, seqno |-> 0]]]

(* t4_record_mbox: the entry at the cursor takes the next sequence number  *)
(* and a timestamp, and the cursor moves on, wrapping at size.             *)
t4_record_mbox(log) ==
    [log EXCEPT
        !.entries[log.cursor + 1] =
            [timestamp |-> log.seqno + 1, seqno |-> log.seqno],
        !.cursor = IF log.cursor + 1 = log.size THEN 0 ELSE log.cursor + 1,
        !.seqno = log.seqno + 1]

mboxlog_get_idx(log, p) ==
    IF p <= log.size THEN p + 1 ELSE NULL

mboxlog_start(log, p) ==
    IF p # 0 THEN mboxlog_get_idx(log, p) ELSE SEQ_START_TOKEN

mboxlog_next(log, p) == [v |-> mboxlog_get_idx(log, p + 1), pos |-> p + 1]

mboxlog_show(log, w) ==
    IF w = SEQ_START_TOKEN
    THEN [kind |-> "hdr"]
    ELSE LET i0 == log.cursor + (w - 2)
             entry_idx == IF i0 >= log.size THEN i0 - log.size ELSE i0
         IN  IF entry_idx < 0 \/ entry_idx >= log.size
             THEN [kind |-> "oob", slot |-> entry_idx]
             ELSE LET e == log.entries[entry_idx + 1]
                  IN  render_entry(e, entry_idx, e.seqno)

---------------------------------------------------------------------------
(* 64-bit words are kept as their 64 bits, bit 0 first.                    *)

Zero64 == [i \in 1..64 |-> 0]

Ones64 == [i \in 1..64 |-> 1]

(* The word whose bytes are bs, most significant first (at most 8).        *)
U64(bs) ==
    [i \in 1..64 |->
        LET k == (i - 1) \div 8
        IN  IF k < Len(bs)
            THEN (bs[Len(bs) - k] \div 2^((i - 1) % 8)) % 2
            ELSE 0]

And64(a, b) == [i \in 1..64 |-> a[i] * b[i]]

Or64(a, b) == [i \in 1..64 |-> IF a[i] + b[i] > 0 THEN 1 ELSE 0]

Shr64(a, n) == [i \in 1..64 |-> IF i + n <= 64 THEN a[i + n] ELSE 0]

Shl64(a, n) == [i \in 1..64 |-> IF i - n >= 1 THEN a[i - n] ELSE 0]

(* Byte k (0: least significant) of a word, as a number.                   *)
ByteOf(a, k) ==
    a[8 * k + 1] + 2 * a[8 * k + 2] + 4 * a[8 * k + 3] + 8 * a[8 * k + 4]
        + 16 * a[8 * k + 5] + 32 * a[8 * k + 6] + 64 * a[8 * k + 7]
        + 128 * a[8 * k + 8]

(* The bytes of a word in memory after cpu_to_be64, lowest address first.  *)
cpu_to_be64(a) == [j \in 1..8 |-> ByteOf(a, 8 - j)]

---------------------------------------------------------------------------
(* The MPS TCAM.                                                           *)

(* tcamxy2valmask: the mask, and the 6 bytes copied from offset 2 of the   *)
(* big-endian image of y.                                                  *)
tcamxy2valmask(x, y) ==
    [mask |-> Or64(x, y), addr |-> SubSeq(cpu_to_be64(y), 3, 8)]

(* The X and Y words of the TCAM cells the model draws rows from.          *)
TcamCells ==
    { [x |-> U64(<<255>>), y |-> U64(<<255>>)],
      [x |-> U64(<<15>>), y |-> U64(<<240>>)],
      [x |-> U64(<<1>>), y |-> U64(<<3>>)],
      [x |-> U64(<<85, 68, 51, 34, 17, 0>>),
       y |-> U64(<<170, 187, 204, 221, 238, 255>>)] }

(* A row of the device: the TCAM cell, the replicate bit of the            *)
(* classification SRAM word, and the lookup type (T6: 1 is inner).         *)
TcamRows == [x : {c.x : c \in TcamCells}, y : {c.y : c \in TcamCells},
             replicate : BOOLEAN, lkp : {0}]

TcamRowSet ==
    {r \in TcamRows : [x |-> r.x, y |-> r.y] \in TcamCells}

(* What a rewrite of a TCAM entry leaves there.                            *)
NewTcamRow == [x |-> U64(<<2, 0>>), y |-> U64(<<1, 0>>),
               replicate |-> FALSE, lkp |-> 1]

(* The replication map of row idx as the firmware returns it: word n       *)
(* (rplc31_0 is word 0) as big-endian bytes.                               *)
RplcReply(idx) == [n \in 1..8 |-> <<n - 1, 0, 0, idx + 1>>]

Zero32 == <<0, 0>>

rplc_words_stale(failed, reply, size) ==
    [n \in 1..8 |->
        IF n <= 4 \/ size > 128 THEN be32_to_cpu(reply[n]) ELSE Zero32]

(* rplc[] after the FW_LDST_CMD round trip: zero when it failed, the words *)
(* of the reply otherwise, the upper four only for a 256-bit map.          *)
rplc_words(failed, reply, size) ==
    IF failed THEN [n \in 1..8 |-> Zero32]
    ELSE [n \in 1..8 |->
            IF n <= 4 \/ size > 128 THEN be32_to_cpu(reply[n]) ELSE Zero32]

(* The control word mps_tcam_show writes on T6 to select a cell half.      *)
tcam_ctl_word(idx, xbit) ==
    [cmd |-> 0, xy |-> xbit,
     index |-> IF idx < 256 THEN idx ELSE idx - 256,
     sel |-> IF idx < 256 THEN 0 ELSE 1]

(* What the T6 data registers hold for the half the control word selects:  *)
(* DMACH and DATA0 are the low 48 bits.                                    *)
tcam_data(tc, ctl) ==
    LET idx == ctl.index + 256 * ctl.sel
        w == IF ctl.xy = 1 THEN tc[idx + 1].x ELSE tc[idx + 1].y
    IN  [i \in 1..64 |-> IF i <= 48 THEN w[i] ELSE 0]

mps_tcam_get_idx(p) ==
    IF p <= MaxMacAddr THEN p + 1 ELSE NULL

mps_tcam_start(p) ==
    IF p # 0 THEN mps_tcam_get_idx(p) ELSE SEQ_START_TOKEN

mps_tcam_next(p) == [v |-> mps_tcam_get_idx(p + 1), pos |-> p + 1]

tcam_empty_eq(x, y) == x = y

(* if (tcamx & tcamy)                                                      *)
tcam_empty(x, y) == And64(x, y) # Zero64

(* mps_tcam_show for cookie w; failed says whether the replication round   *)
(* trip, if one is made, fails.  The result holds the row rendered (o),    *)
(* the words read (x, y), whether a round trip was made (mbox), whether a  *)
(* warning was logged, the value returned and the control word left in     *)
(* the device.                                                             *)
mps_tcam_show(c, tc, ctl, w, failed) ==
    IF w = SEQ_START_TOKEN
    THEN [o |-> [kind |-> "hdr",
                 fmt |-> IF c.ver > 5 THEN "t6"
                         ELSE IF c.rplc_size > 128 THEN "rplc256"
                         ELSE "rplc128"],
          mbox |-> "none", warn |-> FALSE, rc |-> 0, ctl |-> ctl]
    ELSE
    LET idx == w - 2
        t6 == c.ver > 5
        ctly == tcam_ctl_word(idx, 0)
        ctlx == tcam_ctl_word(idx, 1)
        tcamy == IF t6 THEN tcam_data(tc, ctly) ELSE tc[idx + 1].y
        tcamx == IF t6 THEN tcam_data(tc, ctlx) ELSE tc[idx + 1].x
        lookup_type == IF t6 THEN tc[idx + 1].lkp ELSE 0
        replicate == tc[idx + 1].replicate
        ctl2 == IF t6 THEN ctlx ELSE ctl
    IN  IF tcam_empty(tcamx, tcamy)
        THEN [o |-> [kind |-> "empty", idx |-> idx],
              x |-> tcamx, y |-> tcamy,
              mbox |-> "none", warn |-> FALSE, rc |-> 0, ctl |-> ctl2]
        ELSE LET vm == tcamxy2valmask(tcamx, tcamy)
                 rplc == rplc_words(failed, RplcReply(idx), c.rplc_size)
             IN  [o |-> [kind |-> "row", idx |-> idx,
                         addr |-> vm.addr, mask |-> vm.mask,
                         fmt |-> IF ~t6 THEN "t5"
                                 ELSE IF lookup_type # 0 /\ lookup_type # 3
                                 THEN "t6inner" ELSE "t6outer",
                         rplc |-> IF ~replicate THEN <<>>
                                  ELSE IF c.rplc_size > 128
                                  THEN [n \in 1..8 |-> rplc[9 - n]]
                                  ELSE [n \in 1..4 |-> rplc[5 - n]]],
                  x |-> tcamx, y |-> tcamy,
                  mbox |-> IF ~replicate THEN "none"
                           ELSE IF failed THEN "failed" ELSE "ok",
                  warn |-> replicate /\ failed,
                  rc |-> 0, ctl |-> ctl2]

---------------------------------------------------------------------------
(* The bit-field decoder.                                                  *)

(* v - 1 on 64 bits: the low zero bits become one up to and including the  *)
(* lowest one bit, which becomes zero; 0 - 1 wraps to all ones.            *)
Dec64(a) ==
    LET ones == {i \in 1..64 : a[i] = 1}
        low == IF ones = {} THEN 65
               ELSE CHOOSE i \in ones : \A j \in ones : i <= j
    IN  [i \in 1..64 |-> IF i < low THEN 1 ELSE IF i = low THEN 0 ELSE a[i]]

One64 == [i \in 1..64 |-> IF i = 1 THEN 1 ELSE 0]

(* 1ULL << width.  A shift by 64 is undefined: the shifter either uses the *)
(* count modulo 64 (ub = "wrap"), or shifts the bit out (ub = "zero").     *)
shl_one(width, ub) ==
    IF width < 64 THEN Shl64(One64, width)
    ELSE IF ub = "wrap" THEN Shl64(One64, width % 64)
    ELSE Zero64

(* u64 mask = (1ULL << p->width) - 1;                                      *)
field_mask(width, ub) == Dec64(shl_one(width, ub))

(* The decimal digits of a word, most significant first ("%llu"): the word *)
(* is c0 + c1 * 2^16 + c2 * 2^32 + c3 * 2^48, summed in limbs of four      *)
(* decimal digits (2^16 = 6|5536, 2^32 = 42|9496|7296,                     *)
(* 2^48 = 281|4749|7671|0656).                                            *)
dec_limbs(a) ==
    LET c0 == ByteOf(a, 0) + 256 * ByteOf(a, 1)
        c1 == ByteOf(a, 2) + 256 * ByteOf(a, 3)
        c2 == ByteOf(a, 4) + 256 * ByteOf(a, 5)
        c3 == ByteOf(a, 6) + 256 * ByteOf(a, 7)
        t1 == c0 + c1 * 5536 + c2 * 7296 + c3 * 656
        t2 == c1 * 6 + c2 * 9496 + c3 * 7671 + (t1 \div 10000)
        t3 == c2 * 42 + c3 * 4749 + (t2 \div 10000)
        t4 == c3 * 281 + (t3 \div 10000)
        t5 == t4 \div 10000
    IN  <<t1 % 10000, t2 % 10000, t3 % 10000, t4 % 10000, t5>>

dec_digits(a) ==
    LET ls == dec_limbs(a)
        ds == [i \in 1..20 |-> (ls[((i - 1) \div 4) + 1] \div 10^((i - 1) % 4)) % 10]
        nz == {i \in 1..20 : ds[i] # 0}
        n == IF nz = {} THEN 1 ELSE CHOOSE i \in nz : \A j \in nz : j <= i
    IN  [i \in 1..n |-> ds[n + 1 - i]]

(* field_desc_show from field k of the list p on, with line_size columns   *)
(* used.  Each field gives its name, its value, the digits that fit buf[32] *)
(* after "name: ", and whether a line break went before it.                *)
RECURSIVE field_desc_from(_, _, _, _, _)
field_desc_from(w, p, k, line_size, ub) ==
    IF k > Len(p) THEN <<>>
    ELSE LET f == p[k]
             val == SubSeq(And64(Shr64(w, f.start), field_mask(f.width, ub)),
                           1, 64)
             digits == dec_digits(val)
             full == f.nlen + 2 + Len(digits)
             len == IF full > 31 THEN 31 ELSE full
             brk == line_size + len >= 79
             ls == IF brk THEN 8 ELSE line_size
         IN  <<[name |-> f.name, val |-> val,
                digits |-> SubSeq(digits, 1, len - f.nlen - 2),
                brk |-> brk]>>
             \o field_desc_from(w, p, k + 1, ls + len + 1, ub)

field_desc_show(w, p, ub) == field_desc_from(w, p, 1, 0, ub)

tp_la0 ==
    << [name |-> "RcfOpCodeOut", nlen |-> 12, start |-> 60, width |-> 4],
       [name |-> "State", nlen |-> 5, start |-> 56, width |-> 4],
       [name |-> "WcfState", nlen |-> 8, start |-> 52, width |-> 4],
       [name |-> "RcfOpcSrcOut", nlen |-> 12, start |-> 50, width |-> 2],
       [name |-> "CRxError", nlen |-> 8, start |-> 49, width |-> 1],
       [name |-> "ERxError", nlen |-> 8, start |-> 48, width |-> 1],
       [name |-> "SanityFailed", nlen |-> 12, start |-> 47, width |-> 1],
       [name |-> "SpuriousMsg", nlen |-> 11, start |-> 46, width |-> 1],
       [name |-> "FlushInputMsg", nlen |-> 13, start |-> 45, width |-> 1],
       [name |-> "FlushInputCpl", nlen |-> 13, start |-> 44, width |-> 1],
       [name |-> "RssUpBit", nlen |-> 8, start |-> 43, width |-> 1],
       [name |-> "RssFilterHit", nlen |-> 12, start |-> 42, width |-> 1],
       [name |-> "Tid", nlen |-> 3, start |-> 32, width |-> 10],
       [name |-> "InitTcb", nlen |-> 7, start |-> 31, width |-> 1],
       [name |-> "LineNumber", nlen |-> 10, start |-> 24, width |-> 7],
       [name |-> "Emsg", nlen |-> 4, start |-> 23, width |-> 1],
       [name |-> "EdataOut", nlen |-> 8, start |-> 22, width |-> 1],
       [name |-> "Cmsg", nlen |-> 4, start |-> 21, width |-> 1],
       [name |-> "CdataOut", nlen |-> 8, start |-> 20, width |-> 1],
       [name |-> "EreadPdu", nlen |-> 8, start |-> 19, width |-> 1],
       [name |-> "CreadPdu", nlen |-> 8, start |-> 18, width |-> 1],
       [name |-> "TunnelPkt", nlen |-> 9, start |-> 17, width |-> 1],
       [name |-> "RcfPeerFin", nlen |-> 10, start |-> 16, width |-> 1],
       [name |-> "RcfReasonOut", nlen |-> 12, start |-> 12, width |-> 4],
       [name |-> "TxCchannel", nlen |-> 10, start |-> 10, width |-> 2],
       [name |-> "RcfTxChannel", nlen |-> 12, start |-> 8, width |-> 2],
       [name |-> "RxEchannel", nlen |-> 10, start |-> 6, width |-> 2],
       [name |-> "RcfRxChannel", nlen |-> 12, start |-> 5, width |-> 1],
       [name |-> "RcfDataOutSrdy", nlen |-> 14, start |-> 4, width |-> 1],
       [name |-> "RxDvld", nlen |-> 6, start |-> 3, width |-> 1],
       [name |-> "RxOoDvld", nlen |-> 8, start |-> 2, width |-> 1],
       [name |-> "RxCongestion", nlen |-> 12, start |-> 1, width |-> 1],
       [name |-> "TxCongestion", nlen |-> 12, start |-> 0, width |-> 1] >>

(* Descriptor lists of one field of every width, at offset 0 and at the    *)
(* highest offset that keeps the field inside the word.                    *)
WidthLists ==
    {<<[name |-> "Field", nlen |-> 5, start |-> st, width |-> wd]>> :
        wd \in {1, 4, 32, 63, 64}, st \in {0}}
    \cup {<<[name |-> "Field", nlen |-> 5, start |-> 64 - wd, width |-> wd]>> :
        wd \in {1, 4, 32, 63}}

FieldLists == {tp_la0} \cup WidthLists

FieldWords ==
    { U64(<<171, 205>>),
      Ones64,
      U64(<<128, 0, 0, 0, 0, 0, 0, 1>>),
      U64(<<1, 35, 69, 103, 137, 171, 205, 239>>) }

---------------------------------------------------------------------------
(* Text written by the user: a sequence of characters, each a string of    *)
(* one character.  The byte after the last one is NUL.                     *)

NUL == ""

At(s, i) == IF i >= 1 /\ i <= Len(s) THEN s[i] ELSE NUL

DecChars == <<"0", "1", "2", "3", "4", "5", "6", "7", "8", "9">>

LowerHex == <<"a", "b", "c", "d", "e", "f">>

UpperHex == <<"A", "B", "C", "D", "E", "F">>

IndexIn(cs, c) == CHOOSE i \in 1..Len(cs) : cs[i] = c

isdigit(c) == \E i \in 1..Len(DecChars) : DecChars[i] = c

isxdigit(c) ==
    \/ isdigit(c)
    \/ \E i \in 1..Len(LowerHex) : LowerHex[i] = c \/ UpperHex[i] = c

(* isdigit(c) ? c - '0' : tolower(c) - 'a' + 10, for a hex digit c.        *)
xdigit2int(c) ==
    IF isdigit(c) THEN IndexIn(DecChars, c) - 1
    ELSE IF \E i \in 1..Len(LowerHex) : LowerHex[i] = c
    THEN IndexIn(LowerHex, c) + 9
    ELSE IndexIn(UpperHex, c) + 9

DigitChars == {DecChars[i] : i \in 1..Len(DecChars)}

XdigitChars ==
    DigitChars \cup {LowerHex[i] : i \in 1..Len(LowerHex)}
               \cup {UpperHex[i] : i \in 1..Len(UpperHex)}

SpaceChars == {" ", "\n", "\t", "\r"}

(* The number of characters of s from position p on that are in cs.        *)
RunLen(s, p, cs) ==
    LET stop == {k \in p..(Len(s) + 1) : At(s, k) \notin cs}
    IN  (CHOOSE k \in stop : \A m \in stop : k <= m) - p

(* The length of the word strsep(&p, " ") cuts at position p of s.         *)
WordLen(s, p) ==
    LET stop == {k \in p..(Len(s) + 1) : At(s, k) \in {" ", NUL}}
    IN  (CHOOSE k \in stop : \A m \in stop : k <= m) - p

(* strncmp(word, pre, Len(pre)) == 0                                       *)
HasPrefix(word, pre) ==
    Len(word) >= Len(pre) /\ SubSeq(word, 1, Len(pre)) = pre

(* The characters of s from position p on.                                 *)
From(s, p) == SubSeq(s, p, Len(s))

(* (a << 4) + x and a << 4 on 32 bits.                                     *)
Shl4Add(a, x) ==
    <<(a[1] * 16 + (a[2] \div 4096)) % 65536, ((a[2] % 4096) * 16) + x>>

RECURSIVE ShlNibbles(_, _)
ShlNibbles(a, n) == IF n = 0 THEN a ELSE ShlNibbles(Shl4Add(a, 0), n - 1)

(* (1 << n * 4) - 1 for n in 1..7.                                         *)
NibbleOnes(n) == IF n <= 4 THEN <<0, 16^n - 1>> ELSE <<16^(n - 4) - 1, U16Max>>

(* val * 10 + d on 32 bits; over says the result does not fit.             *)
RECURSIVE parse_integer(_, _, _)
parse_integer(ds, k, acc) ==
    IF k > Len(ds) THEN acc
    ELSE LET step(lo) ==
                 LET carry(hi) ==
                         parse_integer(ds, k + 1,
                             [val |-> <<hi % 65536, lo % 65536>>,
                              over |-> acc.over \/ hi > U16Max])
                 IN  carry(acc.val[1] * 10 + (lo \div 65536))
         IN  step(acc.val[2] * 10 + xdigit2int(ds[k]))

(* kstrtouint(s, 10, &j): an optional '+', decimal digits, an optional     *)
(* newline, and nothing else; ok is FALSE for -EINVAL and -ERANGE, and j   *)
(* is then left alone.                                                     *)
kstrtouint(s) ==
    LET number(b, n) ==
            LET result(e, r) ==
                    [ok |-> n > 0 /\ e > Len(s) /\ ~r.over, val |-> r.val]
            IN  result(IF At(s, b + n) = "\n" THEN b + n + 1 ELSE b + n,
                       parse_integer(SubSeq(s, b, b + n - 1), 1,
                                     [val |-> Zero32, over |-> FALSE]))
        digits(b) == number(b, RunLen(s, b, DigitChars))
    IN  digits(IF At(s, 1) = "+" THEN 2 ELSE 1)

(* j > n for a 32-bit j and a small n.                                     *)
Gt32(j, n) == j[1] > 0 \/ j[2] > n

---------------------------------------------------------------------------
(* The MPS trace filter file: mps_trc_write.                               *)

(* tp after memset(&tp, 0, sizeof(tp)) and tp.port = TRC_PORT_NONE; data   *)
(* and mask are the TRACE_LEN / 4 words of the pattern.                    *)
NewTp ==
    [port |-> TRC_PORT_NONE, snap_len |-> 0, min_len |-> 0, invert |-> 0,
     skip_ofst |-> 0, skip_len |-> 0,
     data |-> [k \in 1..(TRACE_LEN \div 4) |-> Zero32],
     mask |-> [k \in 1..(TRACE_LEN \div 4) |-> Zero32]]

(* The words of a pattern after the hex digits ds were shifted in from     *)
(* nibble i on: each digit x turns its word d into (d << 4) + x.           *)
RECURSIVE shift_in(_, _, _, _)
shift_in(d, ds, k, last) ==
    IF k > last THEN d
    ELSE shift_in(Shl4Add(d, xdigit2int(ds[k])), ds, k + 1, last)

(* Digit k goes to word (i + k - 1) / 8: word w takes the digits           *)
(* 8 * (w - 1) - i + 1 .. 8 * w - i of ds, in order.                       *)
put_nibbles(arr, i, ds, k) ==
    [w \in 1..Len(arr) |->
        shift_in(arr[w], ds,
                 IF 8 * (w - 1) - i + 1 > k THEN 8 * (w - 1) - i + 1 ELSE k,
                 IF 8 * w - i < Len(ds) THEN 8 * w - i ELSE Len(ds))]

(* The mask of a pattern given without one: the words j/8 .. i/8 - 1 are   *)
(* all ones, the last one (1 << (i % 8) * 4) - 1.                          *)
ones_mask(arr, j, i) ==
    [k \in 1..Len(arr) |->
        IF k - 1 >= j \div 8 /\ k - 1 < (j \div 8) + ((i - j) \div 8)
        THEN U32Max
        ELSE IF i % 8 # 0 /\ k - 1 = (j \div 8) + ((i - j) \div 8)
        THEN NibbleOnes(i % 8)
        ELSE arr[k]]

(* The anchor of a pattern, for the text end after '@', j as the mask left *)
(* it and the tp so far: the new skip_len, or inval.                       *)
trc_anchor(end, j, tp) ==
    LET skip(j1, j8) ==
            IF At(end, 1) # NUL /\ At(end, 1) # "\n" THEN [inval |-> TRUE]
            ELSE IF j1[2] % 8 # 0 THEN [inval |-> TRUE]
            ELSE IF j8[1] = 0 /\ j8[2] < tp.skip_ofst THEN [inval |-> TRUE]
            ELSE IF Gt32(j8, tp.skip_ofst + 31) THEN [inval |-> TRUE]
            ELSE [inval |-> FALSE, skip_len |-> j8[2] - tp.skip_ofst]
        div8(j1) ==
            skip(j1, <<j1[1] \div 8, ((j1[1] % 8) * 8192) + (j1[2] \div 8)>>)
        parsed(k) == div8(IF k.ok THEN k.val ELSE <<0, j>>)
    IN  parsed(kstrtouint(end))

(* The state of the parse: tp, the count i of pattern nibbles, and the     *)
(* registers written so far.                                               *)
Continue(tp, i, w) == [res |-> "continue", tp |-> tp, i |-> i, hw |-> w]

Stop(res, st) == [res |-> res, tp |-> st.tp, i |-> st.i, hw |-> st.hw]

(* A word that starts with a hex digit: a trace pattern.                   *)
trc_pattern(word, st) ==
    LET finish(i1, tp2, anchor) ==
            IF st.i # 0 /\ st.tp.skip_len # 0 THEN Stop("inval", st)
            ELSE IF i1 > TRACE_LEN * 2 THEN Stop("efbig", st)
            ELSE IF tp2.inval THEN Stop("inval", st)
            ELSE IF anchor.inval THEN Stop("inval", st)
            ELSE IF i1 % 8 # 0
            THEN Continue(
                     [tp2.tp EXCEPT
                         !.data[(i1 \div 8) + 1] = ShlNibbles(@, 8 - (i1 % 8)),
                         !.mask[(i1 \div 8) + 1] = ShlNibbles(@, 8 - (i1 % 8)),
                         !.skip_len = anchor.skip_len],
                     ((i1 + 15) \div 16) * 16, st.hw)
            ELSE Continue([tp2.tp EXCEPT !.skip_len = anchor.skip_len],
                          i1, st.hw)
        fill(tp1, n, hasmask, m) ==
            finish(st.i + n,
                   [inval |-> hasmask /\ m # n,
                    tp |-> [tp1 EXCEPT
                        !.data = put_nibbles(@, st.i, SubSeq(word, 1, n), 1),
                        !.mask = IF hasmask
                                 THEN put_nibbles(@, st.i,
                                          SubSeq(word, n + 2, n + 1 + m), 1)
                                 ELSE ones_mask(@, st.i, st.i + n)]],
                   IF At(word, IF hasmask THEN n + 2 + m ELSE n + 1) = "@"
                   THEN trc_anchor(
                            From(word, IF hasmask THEN n + 3 + m ELSE n + 2),
                            IF hasmask THEN st.i + m
                            ELSE st.i + 8 * (n \div 8),
                            tp1)
                   ELSE [inval |-> FALSE, skip_len |-> tp1.skip_len])
        digits(tp1, n) ==
            fill(tp1, n, At(word, n + 1) = "/",
                 IF At(word, n + 1) = "/"
                 THEN RunLen(word, n + 2, XdigitChars) ELSE 0)
    IN  digits(IF st.i # 0 THEN [st.tp EXCEPT !.skip_ofst = st.i \div 16]
               ELSE st.tp,
               RunLen(word, 1, XdigitChars))

(* The register the qid goes to.                                           *)
qid_reg(a) ==
    IF ~a.trace_rss THEN "MPS_T5_TRC_RSS_CONTROL"
    ELSE IF a.trcidx = 0 THEN "MPS_TRC_RSS_CONTROL"
    ELSE IF a.trcidx = 1 THEN "MPS_TRC_FILTER1_RSS_CONTROL"
    ELSE IF a.trcidx = 2 THEN "MPS_TRC_FILTER2_RSS_CONTROL"
    ELSE "MPS_TRC_FILTER3_RSS_CONTROL"

(* A port word whose digit is at position d: the digit 0..3, or -1.        *)
port_digit(word, d) ==
    IF At(word, d) \in {"0", "1", "2", "3"} /\ At(word, d + 1) = NUL
    THEN xdigit2int(At(word, d))
    ELSE -1

port_any(tp) == TRUE

(* A port word is taken as one while tp.port == TRC_PORT_NONE.             *)
port_unset(tp) == tp.port = TRC_PORT_NONE

(* One word of the command.                                                *)
trc_word(a, word, st) ==
    LET qid(k) ==
            IF ~k.ok THEN Stop("out", st)
            ELSE Continue(st.tp, st.i,
                          Append(st.hw, [reg |-> qid_reg(a), val |-> k.val]))
        snaplen(k) ==
            IF ~k.ok \/ Gt32(k.val, 9600) THEN Stop("inval", st)
            ELSE Continue([st.tp EXCEPT !.snap_len = k.val[2]], st.i, st.hw)
        minlen(k) ==
            IF ~k.ok \/ Gt32(k.val, TFMINPKTSIZE_M) THEN Stop("inval", st)
            ELSE Continue([st.tp EXCEPT !.min_len = k.val[2]], st.i, st.hw)
        loopback(d) ==
            IF d < 0 THEN Stop("inval", st)
            ELSE Continue([st.tp EXCEPT !.port = d + 8], st.i, st.hw)
        port(d, base) ==
            IF d < 0 THEN Stop("inval", st)
            ELSE IF a.chan_map[d + 1] >= MAX_NPORTS THEN Stop("inval", st)
            ELSE Continue([st.tp EXCEPT !.port = d + base], st.i, st.hw)
    IN  IF HasPrefix(word, <<"q", "i", "d", "=">>)
        THEN qid(kstrtouint(From(word, 5)))
        ELSE IF HasPrefix(word, <<"s", "n", "a", "p", "l", "e", "n", "=">>)
        THEN snaplen(kstrtouint(From(word, 9)))
        ELSE IF HasPrefix(word, <<"m", "i", "n", "l", "e", "n", "=">>)
        THEN minlen(kstrtouint(From(word, 8)))
        ELSE IF word = <<"n", "o", "t">>
        THEN Continue([st.tp EXCEPT !.invert = 1 - st.tp.invert], st.i, st.hw)
        ELSE IF HasPrefix(word, <<"l", "o", "o", "p", "b", "a", "c", "k">>)
                /\ port_unset(st.tp)
        THEN loopback(port_digit(word, 9))
        ELSE IF HasPrefix(word, <<"t", "x">>) /\ port_unset(st.tp)
        THEN port(port_digit(word, 3), 4)
        ELSE IF HasPrefix(word, <<"r", "x">>) /\ port_unset(st.tp)
        THEN port(port_digit(word, 3), 0)
        ELSE IF ~isxdigit(At(word, 1)) THEN Stop("inval", st)
        ELSE trc_pattern(word, st)

(* The loop over the words of s from position p on; p = 0 is the NULL      *)
(* strsep leaves after the last word.                                      *)
RECURSIVE trc_words(_, _, _, _)
trc_words(a, s, p, st) ==
    LET next(pn, r) ==
            IF r.res = "continue" THEN trc_words(a, s, pn, r) ELSE r
        cut(p0, n) ==
            IF n = 0 THEN Stop("end", st)
            ELSE next(IF At(s, p0 + n) = " " THEN p0 + n + 1 ELSE 0,
                      trc_word(a, SubSeq(s, p0, p0 + n - 1), st))
        skip(p0) == cut(p0, WordLen(s, p0))
    IN  IF p = 0 THEN Stop("end", st)
        ELSE skip(p + RunLen(s, p, SpaceChars))

Disable == <<"d", "i", "s", "a", "b", "l", "e">>

(* The call t4_set_trace_filter(adap, &tp, trcidx, enable).                *)
SetTraceFilter(a, tp, enable) ==
    [reg |-> "t4_set_trace_filter", idx |-> a.trcidx, enable |-> enable,
     tp |-> tp]

trc_enable_prefix(s) == ~HasPrefix(s, Disable)

(* enable = strcmp("disable", s) != 0                                      *)
trc_enable(s) == s # Disable

(* mps_trc_write of the count bytes of buf.  fault is what goes wrong      *)
(* with the copy of the buffer, frc what t4_set_trace_filter returns.  The *)
(* result is the value returned and the registers written, in order.       *)
mps_trc_write(a, buf, fault, frc) ==
    LET count == Len(buf)
        parsed(r) ==
            IF r.res = "inval" THEN [ret |-> -EINVAL, hw |-> r.hw]
            ELSE IF r.res = "efbig" THEN [ret |-> -EFBIG, hw |-> r.hw]
            ELSE IF r.res = "out" THEN [ret |-> count, hw |-> r.hw]
            ELSE IF r.tp.port = TRC_PORT_NONE
            THEN [ret |-> -EINVAL, hw |-> r.hw]
            ELSE [ret |-> IF frc # 0 THEN frc ELSE count,
                  hw |-> Append(r.hw, SetTraceFilter(a, r.tp, 1))]
        command(s) ==
            IF ~trc_enable(s)
            THEN [ret |-> IF frc # 0 THEN frc ELSE count,
                  hw |-> <<SetTraceFilter(a, "uninitialized", 0)>>]
            ELSE parsed(trc_words(a, s, 1,
                     Continue(NewTp, 0,
                         <<[reg |-> "MPS_TRC_CFG",
                            val |-> <<0, IF a.trace_rss THEN TRC_RSS_ENABLE
                                         ELSE TRC_RSS_DISABLE>>]>>)))
    IN  IF count > 1024 THEN [ret |-> -EFBIG, hw |-> <<>>]
        ELSE IF fault = "nomem" THEN [ret |-> -ENOMEM, hw |-> <<>>]
        ELSE IF fault = "efault" THEN [ret |-> -EFAULT, hw |-> <<>>]
        ELSE command(IF count > 0 /\ buf[count] = "\n"
                     THEN SubSeq(buf, 1, count - 1)
                     ELSE buf)

---------------------------------------------------------------------------
(* Where mps_trc_write reads and writes: the words of tp.data and tp.mask, *)
(* and the bytes of its buffer s.                                          *)

Max(a, b) == IF a >= b THEN a ELSE b

trc_capped_never(i) == FALSE

(* Line 1563: the test made before each digit of a pattern is stored.      *)
trc_capped(i) == i >= TRACE_LEN * 2

(* The loop of lines 1562-1570 from digit k of word on: the nibble count   *)
(* i it ends with, the digit it stops at and the highest index of tp.data  *)
(* it wrote (top), or efbig.                                               *)
(* The loop stores a digit for each hex digit of the run at k until the    *)
(* test of line 1563 holds.                                                *)
trc_data_loop(word, k, i, top) ==
    LET first(capped, n) ==
            IF capped = {} THEN n
            ELSE CHOOSE m \in capped : \A q \in capped : m <= q
        stored(steps, n) ==
            [i |-> i + steps, k |-> k + steps,
             top |-> IF steps > 0 THEN Max(top, (i + steps - 1) \div 8)
                     ELSE top,
             efbig |-> steps < n]
        run(n) == stored(first({m \in 0..(n - 1) : trc_capped(i + m)}, n), n)
    IN  run(RunLen(word, k, XdigitChars))

(* The loop of lines 1573-1579: the highest index of tp.mask written.      *)
trc_mask_loop(word, k, j, i, top) ==
    LET stored(steps) ==
            IF steps > 0 THEN Max(top, (j + steps - 1) \div 8) ELSE top
        run(n) == stored(IF n < i - j THEN n ELSE Max(i - j, 0))
    IN  run(RunLen(word, k, XdigitChars))

(* Lines 1583-1586: the highest index of tp.mask the mask of all ones is   *)
(* written to, for a pattern of the nibbles j .. i - 1.                    *)
trc_ones_top(j, i, top) ==
    IF i % 8 # 0 THEN Max(top, (j \div 8) + ((i - j) \div 8))
    ELSE IF i - j >= 8 THEN Max(top, (j \div 8) + ((i - j) \div 8) - 1)
    ELSE top

NoExtent == [nib |-> 0, data_top |-> -1, mask_top |-> -1, hi |-> -1]

(* What a word adds to the extent acc: only a pattern writes to tp.data    *)
(* and tp.mask.                                                            *)
trc_word_extent(word, st, acc) ==
    LET mask(d) ==
            [acc EXCEPT
                !.nib = Max(@, d.i),
                !.data_top = Max(@, d.top),
                !.mask_top =
                    IF d.efbig THEN @
                    ELSE IF At(word, d.k) = "/"
                    THEN trc_mask_loop(word, d.k + 1, st.i, d.i, @)
                    ELSE trc_ones_top(st.i, d.i, @)]
    IN  IF ~isxdigit(At(word, 1)) THEN acc
        ELSE IF st.i # 0 /\ st.tp.skip_len # 0 THEN acc
        ELSE mask(trc_data_loop(word, 1, st.i, -1))

(* The loop of trc_words again, for the extent: hi is the highest index of *)
(* s read, the byte that ends a word.                                      *)
RECURSIVE trc_extent(_, _, _, _, _)
trc_extent(a, s, p, st, acc) ==
    LET seen(e, pn) == [e EXCEPT !.hi = Max(@, pn - 1)]
        next(pn, r, e) ==
            IF r.res = "continue"
            THEN trc_extent(a, s, pn, r, [e EXCEPT !.nib = Max(@, r.i)])
            ELSE e
        cut(p0, n) ==
            IF n = 0 THEN seen(acc, p0)
            ELSE next(IF At(s, p0 + n) = " " THEN p0 + n + 1 ELSE 0,
                      trc_word(a, SubSeq(s, p0, p0 + n - 1), st),
                      trc_word_extent(SubSeq(s, p0, p0 + n - 1), st,
                                      seen(acc, p0 + n)))
        skip(p0) == cut(p0, WordLen(s, p0))
    IN  IF p = 0 THEN acc
        ELSE skip(p + RunLen(s, p, SpaceChars))

(* The extent of a call of mps_trc_write, and what it does with s: the     *)
(* bytes allocated (size), the lowest and the highest index used, the      *)
(* calls of kfree, and whether s[count - 1] was set to 0.  before is what  *)
(* the byte before s holds when count is 0: TRUE for a newline.            *)
mps_trc_access(a, buf, fault, before) ==
    LET count == Len(buf)
        none == [ext |-> NoExtent,
                 mem |-> [size |-> 0, lo |-> 0, hi |-> -1, frees |-> 0,
                          cut |-> FALSE]]
        used(e, nl) ==
            [ext |-> e,
             mem |-> [size |-> count + 1,
                      lo |-> IF count = 0 THEN -1 ELSE 0,
                      hi |-> Max(count - 1, e.hi),
                      frees |-> 1, cut |-> nl]]
        parse(s, nl) ==
            IF ~trc_enable(s) THEN used([NoExtent EXCEPT !.hi = Len(s)], nl)
            ELSE used(trc_extent(a, s, 1, Continue(NewTp, 0, <<>>), NoExtent),
                      nl)
    IN  IF count > 1024 \/ fault = "nomem" THEN none
        ELSE IF fault = "efault"
        THEN [ext |-> NoExtent,
              mem |-> [size |-> count + 1, lo |-> 0, hi |-> count - 1,
                       frees |-> 1, cut |-> FALSE]]
        ELSE IF count = 0 THEN parse(<<>>, before)
        ELSE IF buf[count] = "\n" THEN parse(SubSeq(buf, 1, count - 1), TRUE)
        ELSE parse(buf, FALSE)

---------------------------------------------------------------------------
(* The RSS key file.                                                       *)

hex2val(c) == xdigit2int(c)

(* rss_key_write of the bytes of buf: the value returned and, when the key *)
(* is written, the key (key[0] first).                                     *)
rss_key_write(buf, fault) ==
    LET count == Len(buf)
        parse(s) ==
            IF \E k \in 1..80 : ~isxdigit(At(s, k))
            THEN [ret |-> -EINVAL, written |-> FALSE]
            ELSE [ret |-> count, written |-> TRUE,
                  key |-> [n \in 1..10 |->
                      put_nibbles(<<Zero32>>, 0,
                          SubSeq(s, 8 * (10 - n) + 1, 8 * (10 - n) + 8), 1)[1]]]
        trim(sp) ==
            parse(SubSeq(buf, 1, CHOOSE k \in sp : \A m \in sp : k <= m))
    IN  IF count > 99 THEN [ret |-> -EINVAL, written |-> FALSE]
        ELSE IF fault = "efault" THEN [ret |-> -EFAULT, written |-> FALSE]
        ELSE trim({k \in 0..count :
                      \A m \in (k + 1)..count : buf[m] \in SpaceChars})

(* "%08x" of a 32-bit word.                                                *)
hex8(w) ==
    [k \in 1..8 |->
        LET nib == IF k <= 4 THEN (w[1] \div 16^(4 - k)) % 16
                   ELSE (w[2] \div 16^(8 - k)) % 16
        IN  IF nib < 10 THEN DecChars[nib + 1] ELSE LowerHex[nib - 9]]

rss_key_show_lsw(key) ==
    hex8(key[1]) \o hex8(key[2]) \o hex8(key[3]) \o hex8(key[4])
        \o hex8(key[5]) \o hex8(key[6]) \o hex8(key[7]) \o hex8(key[8])
        \o hex8(key[9]) \o hex8(key[10]) \o <<"\n">>

(* rss_key_show prints key[9] .. key[0].                                   *)
rss_key_show(key) ==
    hex8(key[10]) \o hex8(key[9]) \o hex8(key[8]) \o hex8(key[7])
        \o hex8(key[6]) \o hex8(key[5]) \o hex8(key[4]) \o hex8(key[3])
        \o hex8(key[2]) \o hex8(key[1]) \o <<"\n">>

---------------------------------------------------------------------------
(* What the user writes.                                                   *)

Tok_rx0 == <<"r", "x", "0">>
Tok_tx1 == <<"t", "x", "1">>
Tok_loopback2 == <<"l", "o", "o", "p", "b", "a", "c", "k", "2">>
Tok_rx7 == <<"r", "x", "7">>
Tok_qid3 == <<"q", "i", "d", "=", "3">>
Tok_qidx == <<"q", "i", "d", "=", "x">>
Tok_snaplen9600 == <<"s", "n", "a", "p", "l", "e", "n", "=", "9", "6", "0", "0">>
Tok_snaplen9601 == <<"s", "n", "a", "p", "l", "e", "n", "=", "9", "6", "0", "1">>
Tok_snaplenx == <<"s", "n", "a", "p", "l", "e", "n", "=", "1", "2", "k">>
Tok_minlen511 == <<"m", "i", "n", "l", "e", "n", "=", "5", "1", "1">>
Tok_minlen512 == <<"m", "i", "n", "l", "e", "n", "=", "5", "1", "2">>
Tok_not == <<"n", "o", "t">>
Tok_pat8m0 == <<"d", "e", "a", "d", "b", "e", "e", "f", "/", "f", "f", "f", "f", "f", "f", "f", "f", "@", "0">>
Tok_pat8m == <<"d", "e", "a", "d", "b", "e", "e", "f", "/", "f", "f", "f", "f", "f", "f", "f", "f">>
Tok_pat3 == <<"a", "b", "c">>
Tok_pat3short == <<"a", "b", "c", "/", "f", "f">>
Tok_pat3long == <<"a", "b", "c", "/", "f", "f", "f", "f">>
Tok_pat2at8 == <<"a", "a", "@", "8">>
Tok_pat2at == <<"a", "a", "@">>
Tok_zzz == <<"z", "z", "z">>
Tok_foo == <<"f", "o", "o">>
Tok_disable == <<"d", "i", "s", "a", "b", "l", "e">>

TrcTokens ==
    {Tok_rx0, Tok_tx1, Tok_loopback2, Tok_rx7,
     Tok_qid3, Tok_qidx, Tok_snaplen9600, Tok_snaplen9601,
     Tok_snaplenx, Tok_minlen511, Tok_minlen512, Tok_not,
     Tok_pat8m0, Tok_pat8m, Tok_pat3, Tok_pat3short,
     Tok_pat3long, Tok_pat2at8, Tok_pat2at, Tok_zzz,
     Tok_foo, Tok_disable}

TrcPatterns ==
    {Tok_pat8m0, Tok_pat8m, Tok_pat3, Tok_pat3short, Tok_pat3long,
     Tok_pat2at8, Tok_pat2at}

(* The commands: one or two words, rx0 with two more, rx0 with three       *)
(* patterns, and a full command for every port.                            *)
TrcCommands ==
    {<<a>> : a \in TrcTokens}
    \cup {<<a, b>> : a \in TrcTokens, b \in TrcTokens}
    \cup {<<Tok_rx0, a, b>> : a \in TrcTokens, b \in TrcTokens}
    \cup {<<Tok_rx0, a, b, c>> : a \in TrcPatterns, b \in TrcPatterns,
                                 c \in {Tok_pat3, Tok_pat2at}}
    \cup {<<a, Tok_qid3, Tok_snaplen9600, b>> :
             a \in {Tok_rx0, Tok_tx1, Tok_loopback2},
             b \in {Tok_pat8m0, Tok_pat8m, Tok_pat2at8}}

(* The words of a command with one space between them.                     *)
RECURSIVE Join(_)
Join(ws) ==
    IF Len(ws) = 0 THEN <<>>
    ELSE IF Len(ws) = 1 THEN ws[1]
    ELSE ws[1] \o <<" ">> \o Join(SubSeq(ws, 2, Len(ws)))

(* A pattern of n hex digits.                                              *)
LongPattern(n) == [k \in 1..n |-> LowerHex[(k % 6) + 1]]

(* What is written to mps_trc: the words the command is made of, and the   *)
(* bytes: the command as it is or with a newline or a space after it, a    *)
(* pattern longer than the trace, more than 1K of spaces.                  *)
TrcInputs ==
    {[toks |-> c, buf |-> Join(c) \o e] :
        c \in TrcCommands, e \in {<<>>, <<"\n">>}}
    \cup {[toks |-> <<Tok_disable>>, buf |-> Tok_disable \o <<" ">>]}
    \cup {[toks |-> <<Tok_rx0, LongPattern(n)>>,
           buf |-> Join(<<Tok_rx0, LongPattern(n)>>)] :
             n \in {TRACE_LEN * 2, TRACE_LEN * 2 + 1}}
    \cup {[toks |-> <<>>, buf |-> [k \in 1..1025 |-> " "]]}
    \cup {[toks |-> <<>>, buf |-> <<>>]}

Adapters ==
    {[trace_rss |-> FALSE, trcidx |-> 0, chan_map |-> <<0, 1, 2, 3>>],
     [trace_rss |-> TRUE, trcidx |-> 1, chan_map |-> <<0, MAX_NPORTS, 1, 2>>]}

NoAdapter == [trace_rss |-> FALSE, trcidx |-> 0, chan_map |-> <<0, 1, 2, 3>>]

(* Key text of n characters: hex digits in lower case, in upper case, in   *)
(* groups of 8 with a space between them, or with one character that is no *)
(* hex digit.                                                              *)
KeyText(kind, n) ==
    [k \in 1..n |->
        IF kind = "groups" /\ k % 9 = 0 THEN " "
        ELSE IF kind = "nohex" /\ k = 41 THEN "g"
        ELSE LET d == (7 * k + ((k - 1) \div 8)) % 16
             IN  IF kind = "upper" /\ d >= 10 THEN UpperHex[d - 9]
                 ELSE IF d >= 10 THEN LowerHex[d - 9]
                 ELSE DecChars[d + 1]]

KeyInputs ==
    {KeyText(kind, n) \o e :
        kind \in {"lower", "upper", "groups", "nohex"},
        n \in {0, 8, 79, 80, 81, 89, 99},
        e \in {<<>>, <<"\n">>, <<" ", "\n">>, [k \in 1..20 |-> " "]}}

NoKey == [n \in 1..10 |-> Zero32]

---------------------------------------------------------------------------
(* The mailbox file: mbox_write.                                           *)

(* A 64-bit word as its 16 hex digits.                                     *)
Zero64x == [k \in 1..16 |-> 0]

(* simple_strtoull(str, &next, 16) on the hex digits ds: the value wraps   *)
(* at 64 bits, so it is the last 16 digits.                                *)
strtoull16(ds) ==
    [k \in 1..16 |->
        IF Len(ds) - 16 + k >= 1 THEN xdigit2int(ds[Len(ds) - 16 + k]) ELSE 0]

(* The conversions "%llx" of sscanf from position p of s on, k of them     *)
(* left: white space is skipped, the word has to start with a hex digit,   *)
(* a 0x in front of the digits is skipped.  The result is the words        *)
(* converted and the position after the last one.                          *)
RECURSIVE scan_llx(_, _, _, _)
scan_llx(s, p, k, acc) ==
    LET digits(b, n) ==
            scan_llx(s, b + n, k - 1,
                     Append(acc, strtoull16(SubSeq(s, b, b + n - 1))))
        number(p0) ==
            IF ~isxdigit(At(s, p0)) THEN [data |-> acc, p |-> p0]
            ELSE IF At(s, p0) = "0" /\ At(s, p0 + 1) \in {"x", "X"}
            THEN digits(p0 + 2, RunLen(s, p0 + 2, XdigitChars))
            ELSE digits(p0, RunLen(s, p0, XdigitChars))
    IN  IF k = 0 THEN [data |-> acc, p |-> p]
        ELSE number(p + RunLen(s, p, SpaceChars))

(* The part of mbox_write before the device is touched: the value it       *)
(* returns, or 0 and data[] when the command is well formed.               *)
mbox_parse(buf, fault) ==
    LET scanned(r) ==
            IF Len(r.data) < MboxWords THEN [ret |-> -EINVAL]
            ELSE IF At(buf, r.p) \notin {NUL, "\n"} THEN [ret |-> -EINVAL]
            ELSE [ret |-> 0, data |-> r.data]
    IN  IF Len(buf) > 255 \/ Len(buf) = 0 THEN [ret |-> -EINVAL]
        ELSE IF fault THEN [ret |-> -EFAULT]
        ELSE scanned(scan_llx(buf, 1, MboxWords, <<>>))

mbox_owned_always(owner) == TRUE

(* MBOWNER_G(readl(ctrl)) == X_MBOWNER_PL                                  *)
mbox_owned(owner) == owner = X_MBOWNER_PL

(* What the device makes of a read of the control register: a mailbox      *)
(* nobody owns is given to the reader.                                     *)
readl_ctrl(owner) == IF owner = X_MBOWNER_NONE THEN X_MBOWNER_PL ELSE owner

(* MBMSGVALID_F | MBOWNER_V(X_MBOWNER_FW)                                  *)
ctrl_valid_fw(m) == [m EXCEPT !.owner = X_MBOWNER_FW, !.valid = TRUE]

(* The commands written to the mailbox file.                               *)
MboxGood == <<"1", " ", "2", " ", "3", " ", "4", " ", "5", " ", "6", " ",
              "7", " ", "8">>

MboxSecond == <<"1", "1", " ", "1", "2", " ", "1", "3", " ", "1", "4", " ",
                "1", "5", " ", "1", "6", " ", "1", "7", " ", "1", "8", "\n">>

MboxInputs ==
    {MboxGood, MboxGood \o <<"\n">>, MboxGood \o <<" ", "\n">>,
     MboxGood \o <<" ", "9", "\n">>, MboxGood \o <<"\n", "z">>,
     <<" ", "0", "x", "1", "f", "\t">> \o MboxGood \o <<"\n">>,
     SubSeq(MboxGood, 1, 13) \o <<"\n">>,
     <<"1", " ", "2", " ", "x", " ">> \o MboxGood \o <<"\n">>,
     <<>>, <<"\n">>, [k \in 1..256 |-> "1"],
     [k \in 1..17 |-> DecChars[(k % 10) + 1]]
         \o SubSeq(MboxGood, 2, 15) \o <<"\n">>}

Callers == {"a", "b"}

---------------------------------------------------------------------------
(* The memory map: meminfo_show.                                           *)

(* 32-bit unsigned arithmetic on <<high half, low half>>.                  *)
Add32(a, b) ==
    <<(a[1] + b[1] + ((a[2] + b[2]) \div 65536)) % 65536, (a[2] + b[2]) % 65536>>

Neg32(a) ==
    IF a[2] = 0 THEN <<(65536 - a[1]) % 65536, 0>>
    ELSE <<U16Max - a[1], 65536 - a[2]>>

Sub32(a, b) == Add32(a, Neg32(b))

One32 == <<0, 1>>

(* a * b for a b below 2^16.                                               *)
MulSmall32(a, b) ==
    Add32(<<(a[1] * b) % 65536, 0>>,
          Add32(<<(((a[2] \div 256) * b) \div 256) % 65536,
                  (((a[2] \div 256) * b) % 256) * 256>>,
                <<((a[2] % 256) * b) \div 65536, ((a[2] % 256) * b) % 65536>>))

Mul32(a, b) ==
    Add32(MulSmall32(a, b[2]), <<MulSmall32(a, b[1])[2], 0>>)

(* v << 20 for the 12 bits of a BASE or SIZE field (in MB).                *)
Shl20(x) == <<(x * 16) % 65536, 0>>

(* The int a 32-bit value is turned into: negative, zero or positive.      *)
int_sign(a) == IF a = Zero32 THEN 0 ELSE IF a[1] >= 32768 THEN -1 ELSE 1

(* mem_desc_cmp: the difference of the bases, returned as an int.          *)
mem_desc_cmp(a, b) == int_sign(Sub32(a.base, b.base))

Swap(arr, i, j) == [arr EXCEPT ![i] = arr[j], ![j] = arr[i]]

(* The sift-down loop of sort() from element r (counted from 0) in the     *)
(* first n elements of arr.                                                *)
RECURSIVE sift(_, _, _)
sift(arr, r, n) ==
    LET down(c) ==
            IF mem_desc_cmp(arr[r + 1], arr[c + 1]) >= 0 THEN arr
            ELSE sift(Swap(arr, r + 1, c + 1), c, n)
    IN  IF r * 2 + 1 >= n THEN arr
        ELSE IF r * 2 + 1 < n - 1
                /\ mem_desc_cmp(arr[r * 2 + 2], arr[r * 2 + 3]) < 0
        THEN down(r * 2 + 2)
        ELSE down(r * 2 + 1)

RECURSIVE heapify(_, _, _)
heapify(arr, i, n) ==
    IF i < 0 \/ Len(arr) < 2 THEN arr ELSE heapify(sift(arr, i, n), i - 1, n)

RECURSIVE heap_sort(_, _)
heap_sort(arr, i) ==
    IF i <= 0 \/ Len(arr) < 2 THEN arr
    ELSE heap_sort(sift(Swap(arr, 1, i + 1), 0, i), i - 1)

(* sort(base, num, size, mem_desc_cmp, NULL): the heap sort of lib/sort.c. *)
sort(arr) ==
    heap_sort(heapify(arr, (Len(arr) \div 2) - 1, Len(arr)), Len(arr) - 1)

(* ARRAY_SIZE(region): the count of named regions; an idx of this value or *)
(* more hides a descriptor.  ARRAY_SIZE(mem) is three more.                *)
NumRegions == 24
MemCapacity == NumRegions + 3

(* A small number as a 32-bit value.                                       *)
U(n) == <<(n \div 65536) % 65536, n % 65536>>

(* One populated memory range: <<>> when its enable bit is clear.          *)
mem_bank(regs, name, idx) ==
    IF name \in regs.en
    THEN <<[base |-> Shl20(regs.bar[name].base),
            limit |-> Add32(Shl20(regs.bar[name].base),
                            Shl20(regs.bar[name].size)),
            idx |-> idx]>>
    ELSE <<>>

(* avail[] before it is sorted, avail[0] first.                            *)
mem_avail(regs) ==
    mem_bank(regs, "edc0", 0) \o mem_bank(regs, "edc1", 1)
    \o (IF regs.chip = 5
        THEN mem_bank(regs, "ext0", 3) \o mem_bank(regs, "ext1", 4)
        ELSE mem_bank(regs, "ext0", 2))

(* base - 1 + page_size * maxpage of the Tx and Rx payload regions.        *)
pmm_limit(r) == Add32(Sub32(r.base, One32), Mul32(r.page_size, U(r.maxpage)))

(* size of the doorbell FIFO as meminfo_show takes it from the registers.  *)
dbvfifo_size(regs) ==
    IF regs.chip = 4 THEN 0
    ELSE IF regs.chip = 5
    THEN (IF regs.vfifo.en THEN regs.vfifo.size ELSE 0)
    ELSE regs.vfifo.size

(* The descriptors of the named regions as they are written to mem[],      *)
(* mem[0] first: limit 0 and idx i unless the code assigns them.           *)
mem_named(regs) ==
    LET md(i, b, l) == [base |-> b, limit |-> l, idx |-> i]
        pm(i, r) == md(i, r.base, pmm_limit(r))
        hash(i) == IF regs.hashen
                   THEN md(i, IF regs.chip <= 5 THEN regs.hash_tid_base
                              ELSE regs.hash_tbl_base, Zero32)
                   ELSE md(NumRegions, Zero32, Zero32)
        ulp(i) == md(i, regs.ulp[i - 11].llimit, regs.ulp[i - 11].ulimit)
        fifo(i, size) ==
            IF size # 0
            THEN [base |-> regs.vfifo.baddr,
                  limit |-> Sub32(Add32(regs.vfifo.baddr, U(size * 4)), One32),
                  idx |-> NumRegions]
            ELSE md(NumRegions, Zero32, Zero32)
        ocq(i) == IF regs.ocq.size # Zero32
                  THEN md(i, regs.ocq.start,
                          Sub32(Add32(regs.ocq.start, regs.ocq.size), One32))
                  ELSE md(NumRegions, regs.ocq.start, Zero32)
    IN  [k \in 1..9 |-> md(k - 1, regs.base9[k], Zero32)]
        \o <<pm(9, regs.tx), pm(10, regs.rx), hash(11)>>
        \o [k \in 1..8 |-> ulp(k + 11)]
        \o <<fifo(20, dbvfifo_size(regs)),
             md(21, regs.ulprx_ctx, Zero32),
             md(22, regs.ulptx_err, Zero32),
             ocq(23)>>

(* The bases of the address-space holes, in the order they are added: one  *)
(* for every sorted range that ends below the next one, and one after the  *)
(* last range if its limit is not 0.                                       *)
RECURSIVE mem_holes(_, _)
mem_holes(av, n) ==
    IF n = Len(av)
    THEN (IF av[n].limit # Zero32 THEN <<av[n].limit>> ELSE <<>>)
    ELSE (IF Lt32(av[n].limit, av[n + 1].base) THEN <<av[n].limit>> ELSE <<>>)
         \o mem_holes(av, n + 1)

(* What is outside mem[] where a descriptor past its end is written: the   *)
(* limit and idx the sort and the printing loop then find there.           *)
(* oops: the write stops the kernel.                                       *)
MemJunk == {[oops |-> TRUE, limit |-> Zero32, idx |-> MemCapacity],
            [oops |-> FALSE, limit |-> Zero32, idx |-> MemCapacity],
            [oops |-> FALSE, limit |-> Zero32, idx |-> 0],
            [oops |-> FALSE, limit |-> U(1), idx |-> 1]}

(* mem[] with the holes added after the named regions: a hole within the   *)
(* array keeps the limit 0 and the idx of its slot, one past the end of    *)
(* the array has what junk says.                                           *)
mem_with_holes(named, holes, junk) ==
    named \o [k \in 1..Len(holes) |->
                 IF NumRegions + k <= MemCapacity
                 THEN [base |-> holes[k], limit |-> Zero32,
                       idx |-> NumRegions + k - 1]
                 ELSE [base |-> holes[k], limit |-> junk.limit,
                       idx |-> junk.idx]]

(* The lines of the populated ranges: avail[lo].limit - 1 is printed.      *)
RECURSIVE mem_bank_lines(_, _)
mem_bank_lines(av, lo) ==
    IF lo > Len(av) THEN <<>>
    ELSE <<[idx |-> av[lo].idx, from |-> av[lo].base,
            to |-> Sub32(av[lo].limit, One32)]>>
         \o mem_bank_lines(av, lo + 1)

(* The lines of the named regions of the sorted mem[]: a descriptor with   *)
(* idx >= ARRAY_SIZE(region) is skipped, a limit of 0 is replaced.  at is  *)
(* the place of the descriptor in mem[], counted from 1.                   *)
RECURSIVE mem_region_lines(_, _)
mem_region_lines(mem, i) ==
    LET lim(m) == IF m.limit # Zero32 THEN m.limit
                  ELSE IF i < Len(mem) THEN Sub32(mem[i + 1].base, One32)
                  ELSE U32Max
        line(m) == [idx |-> m.idx, from |-> m.base, to |-> lim(m), at |-> i]
    IN  IF i > Len(mem) THEN <<>>
        ELSE (IF mem[i].idx >= NumRegions THEN <<>> ELSE <<line(mem[i])>>)
             \o mem_region_lines(mem, i + 1)

(* The two lines after the map: base and base + size - 1 of a CIM range.   *)
cim_line(r) == [from |-> r.base, to |-> Sub32(Add32(r.size, r.base), One32)]

(* meminfo_show up to the page counts, which are printed from registers    *)
(* of their own: nothing when no range is populated; "oops" when a         *)
(* descriptor written past mem[] makes the kernel stop.  ub is what is     *)
(* found outside mem[].                                                    *)
meminfo_show(regs, ub) ==
    LET done(sav, smem) ==
            [kind |-> "map", n |-> Len(smem), avail |-> sav, mem |-> smem,
             banks |-> mem_bank_lines(sav, 1),
             regions |-> mem_region_lines(smem, 1),
             cim |-> <<cim_line(regs.cim_sdram), cim_line(regs.cim_extmem2)>>]
        fill(sav, holes) ==
            IF NumRegions + Len(holes) > MemCapacity /\ ub.oops
            THEN [kind |-> "oops", n |-> NumRegions + Len(holes),
                  avail |-> sav, mem |-> <<>>, banks |-> <<>>,
                  regions |-> <<>>, cim |-> <<>>]
            ELSE done(sav, sort(mem_with_holes(mem_named(regs), holes, ub)))
        map(sav) == fill(sav, mem_holes(sav, 1))
        start(unsorted) ==
            IF unsorted = <<>>
            THEN [kind |-> "none", n |-> 0, avail |-> <<>>, mem |-> <<>>,
                  banks |-> <<>>, regions |-> <<>>, cim |-> <<>>]
            ELSE map(sort(unsorted))
    IN  start(mem_avail(regs))

(* The registers meminfo_show reads.  MemRegs0 is a T4 with three ranges   *)
(* that follow each other and regions in the order of their names.         *)
MemRegs0 ==
    [chip |-> 4,
     en |-> {"edc0", "edc1", "ext0"},
     bar |-> [edc0 |-> [base |-> 0, size |-> 5],
              edc1 |-> [base |-> 5, size |-> 5],
              ext0 |-> [base |-> 10, size |-> 1024],
              ext1 |-> [base |-> 0, size |-> 0]],
     base9 |-> [k \in 1..9 |-> <<k, 0>>],
     tx |-> [base |-> <<16, 0>>, page_size |-> U(65536), maxpage |-> 16],
     rx |-> [base |-> <<32, 0>>, page_size |-> U(16384), maxpage |-> 64],
     hashen |-> FALSE, hash_tid_base |-> <<48, 0>>, hash_tbl_base |-> <<49, 0>>,
     ulp |-> [k \in 1..8 |-> [llimit |-> <<64 + 2 * k, 0>>,
                              ulimit |-> <<65 + 2 * k, 65535>>]],
     vfifo |-> [en |-> FALSE, size |-> 0, baddr |-> <<96, 0>>],
     ulprx_ctx |-> <<100, 0>>, ulptx_err |-> <<101, 0>>,
     ocq |-> [start |-> <<102, 0>>, size |-> <<1, 0>>],
     cim_sdram |-> [base |-> <<103, 0>>, size |-> <<0, 4096>>],
     cim_extmem2 |-> [base |-> <<104, 0>>, size |-> <<0, 8192>>]]

(* BAR fields of the populated ranges.                                     *)
MemBars ==
    {MemRegs0.bar,
     \* four ranges with nothing between them
     [edc0 |-> [base |-> 0, size |-> 2], edc1 |-> [base |-> 2, size |-> 2],
      ext0 |-> [base |-> 4, size |-> 4], ext1 |-> [base |-> 8, size |-> 4]],
     \* four ranges apart from each other, not in the order of their names
     [edc0 |-> [base |-> 6, size |-> 1], edc1 |-> [base |-> 0, size |-> 1],
      ext0 |-> [base |-> 2, size |-> 1], ext1 |-> [base |-> 4, size |-> 1]],
     \* a range above 2 GB and one that ends at 4 GB
     [edc0 |-> [base |-> 0, size |-> 1], edc1 |-> [base |-> 2049, size |-> 1],
      ext0 |-> [base |-> 4095, size |-> 1], ext1 |-> [base |-> 1024, size |-> 1]]}

(* Bases of the first nine regions.                                        *)
MemBases ==
    {MemRegs0.base9,
     \* not in the order of their names
     [k \in 1..9 |-> <<(k * 4) % 9, 0>>],
     \* a TCB base above 2 GB
     [MemRegs0.base9 EXCEPT ![4] = <<32768, 1>>],
     \* bases in every quarter of the address space
     [k \in 1..9 |-> <<(k * 16384) % 65536, k>>],
     \* two regions at the same base
     [MemRegs0.base9 EXCEPT ![2] = <<1, 0>>]}

(* LLIMIT and ULIMIT of the ULP regions.                                   *)
MemUlps ==
    {MemRegs0.ulp,
     \* a TDDP region that is not set up: both registers are 0
     [MemRegs0.ulp EXCEPT ![2] = [llimit |-> Zero32, ulimit |-> Zero32]],
     \* a PBL region with no upper limit programmed
     [MemRegs0.ulp EXCEPT ![7] = [llimit |-> <<78, 0>>, ulimit |-> Zero32]]}

MemRegSet ==
    {[MemRegs0 EXCEPT !.chip = c, !.en = e, !.bar = b, !.base9 = b9,
                      !.ulp = u, !.hashen = h, !.vfifo.en = h,
                      !.vfifo.size = IF h THEN 32 ELSE 0,
                      !.ocq.size = IF h THEN Zero32 ELSE <<1, 0>>] :
        c \in {4, 5, 6},
        e \in {{}, {"edc0"}, {"edc0", "edc1"}, {"edc0", "edc1", "ext0"},
               {"edc0", "edc1", "ext0", "ext1"}},
        b \in MemBars, b9 \in MemBases, u \in MemUlps, h \in BOOLEAN}
    \cup {[MemRegs0 EXCEPT !.tx = t] :
            t \in {\* a Tx payload region of one byte at address 1
                   [base |-> U(1), page_size |-> U(1), maxpage |-> 0],
                   \* a Tx payload region that ends at 4 GB - 1
                   [base |-> <<65535, 0>>, page_size |-> U(65536),
                    maxpage |-> 1]}}

NoMemRegs == [chip |-> 4, en |-> {}]
NoMemOut == [kind |-> "unread"]

(* A read of the meminfo file: single_open and one call of meminfo_show.   *)
MeminfoShow(ub) ==
    /\ file = "meminfo"
    /\ pc = "closed"
    /\ mi_out' = meminfo_show(mi_regs, ub)
    /\ pc' = "open"
    /\ UNCHANGED <<file, ret, mi_regs, itervars, tabvars, logvars, tcamvars,
                   fdvars, wrvars, mbvars, capvars, trcvars, rdvars>>

---------------------------------------------------------------------------
(* The open handlers that capture a table, and mem_read: cim_la_open,      *)
(* cim_ibq_open, cim_obq_open, rss_open, devlog_open, mem_read.            *)

CIM_IBQ_SIZE == 128
CIM_OBQ_SIZE == 128
RSS_NENTRIES == 2048

CapHandlers == {"cim_la", "cim_ibq", "cim_obq", "rss", "devlog", "mem_read"}

(* devlog_open and mem_read read adapter memory through memory window 0    *)
(* under adap->win0_lock.                                                  *)
WindowUsers == {"devlog", "mem_read"}

(* The rows a handler asks seq_open_tab for; the bytes mem_read allocates. *)
cap_rows(h, in) ==
    CASE h = "cim_la" -> IF in.chip = 6 THEN (in.cim_la_size \div 10) + 1
                         ELSE in.cim_la_size \div 8
      [] h = "cim_ibq" -> CIM_IBQ_SIZE
      [] h = "cim_obq" -> 6 * CIM_OBQ_SIZE
      [] h = "rss" -> RSS_NENTRIES \div 8
      [] h = "devlog" -> in.size
      [] h = "mem_read" -> IF in.count > in.avail - in.pos
                           THEN in.avail - in.pos ELSE in.count

(* What a handler does before it allocates: [pc, ret].  cim_la_open reads  *)
(* the LA configuration (rc), devlog_open tests the place of the log,      *)
(* mem_read tests the position.                                            *)
cap_begin(h, in, rc) ==
    CASE h = "cim_la" /\ rc # 0 -> [pc |-> "failed", ret |-> rc]
      [] h = "devlog" /\ in.start = 0 -> [pc |-> "failed", ret |-> -ENXIO]
      [] h = "mem_read" /\ in.pos < 0 -> [pc |-> "done", ret |-> -EINVAL]
      [] h = "mem_read" /\ in.pos >= 0 /\ in.pos >= in.avail ->
             [pc |-> "done", ret |-> 0]
      [] OTHER -> [pc |-> "begun", ret |-> 0]

capture_never_failed(h, rc) == FALSE

(* The test each handler makes of what its capture routine returned.       *)
capture_failed(h, rc) == IF h \in {"cim_ibq", "cim_obq"} THEN rc < 0 ELSE rc # 0

(* The values a capture routine returns: 0 or a negative errno; the words  *)
(* read for t4_read_cim_ibq and t4_read_cim_obq.                           *)
CapRcs(h) ==
    CASE h = "cim_ibq" -> {-EIO, CIM_IBQ_SIZE * 4}
      [] h = "cim_obq" -> {-EIO, 0, 8, 6 * CIM_OBQ_SIZE * 4}
      [] OTHER -> {-EIO, 0}

(* What the capture routine leaves in the buffer.                          *)
cap_filled(h, rc) == IF rc < 0 THEN "partial" ELSE "full"

lock_free_always(l) == TRUE

(* spin_lock takes a lock nobody holds.                                    *)
lock_free(l) == l = <<>>

(* The end of an open handler after the capture: [pc, ret, tab, log].      *)
cap_open_finish(h, rc, tab) ==
    IF capture_failed(h, rc)
    THEN [pc |-> "failed", ret |-> rc, tab |-> [tab EXCEPT !.state = "freed"],
          log |-> <<"release">>]
    ELSE [pc |-> "open", ret |-> 0,
          tab |-> IF h = "cim_obq" THEN seq_tab_trim(tab, rc \div 4).tb ELSE tab,
          log |-> <<>>]

(* The end of mem_read after the read through the window.                  *)
mem_read_finish(in, rc, tab, fault) ==
    LET freed == [tab EXCEPT !.state = "freed"]
    IN  IF rc # 0
        THEN [pc |-> "done", ret |-> rc, tab |-> freed, log |-> <<"free">>]
        ELSE IF fault
        THEN [pc |-> "done", ret |-> -EFAULT, tab |-> freed,
              log |-> <<"copy_" \o tab.state, "free">>]
        ELSE [pc |-> "done", ret |-> tab.rows,
              tab |-> [freed EXCEPT !.pos = in.pos + tab.rows],
              log |-> <<"copy_" \o tab.state, "free">>]

(* The paging calls made on one session.                                   *)
MaxPages == 2

IsShow(e) == e \in {"show_empty", "show_partial", "show_full", "show_freed"}

NoCapTab == [state |-> "none", rows |-> 0, pos |-> 0]

CapInputs ==
    [chip : {5, 6}, cim_la_size : {20}, start : {0, 1}, size : {2},
     pos : {-1, 0, 3, 4}, count : {2}, avail : {4}]

CapRuns == {{"cim_la"}, {"cim_ibq"}, {"cim_obq"}, {"rss"}, {"devlog", "mem_read"}}

---------------------------------------------------------------------------
(* The traversal bookkeeping shared by all files.                          *)

IterInit ==
    /\ it = "idle" /\ pos = 0 /\ v = NULL /\ lastop = "none"
    /\ startpos = 0 /\ nadv = 0 /\ ttrace = <<>> /\ out = <<>>

(* A traversal started at position p returned cookie c.                    *)
Started(p, c) ==
    /\ pos' = p
    /\ v' = c
    /\ lastop' = "start"
    /\ startpos' = p
    /\ nadv' = 0
    /\ ttrace' = <<c>>
    /\ out' = <<>>
    /\ it' = IF c = NULL THEN "end" ELSE "fresh"

(* next returned cookie c and left *pos at p.                              *)
Advanced(p, c) ==
    /\ pos' = p
    /\ v' = c
    /\ lastop' = "next"
    /\ nadv' = nadv + 1
    /\ ttrace' = Append(ttrace, c)
    /\ it' = IF c = NULL THEN "end" ELSE "fresh"
    /\ UNCHANGED <<startpos, out>>

(* show rendered o and returned rc; the seq_file core gives up a traversal   *)
(* whose show fails.                                                       *)
Shown(o, rc) ==
    /\ out' = Append(out, o)
    /\ it' = IF rc = 0 THEN "shown" ELSE "error"
    /\ UNCHANGED <<pos, v, lastop, startpos, nadv, ttrace>>

---------------------------------------------------------------------------
(* A seq_tab file (cim_ibq, cim_obq, cim_la, ...).                          *)

(* open: seq_open_tab and the capture into p->data.                        *)
SeqTabOpen(rows, width, hdr) ==
    /\ file = "seq_tab" /\ pc = "closed"
    /\ tb' = seq_open_tab(rows, width, hdr, hwgen)
    /\ rows0' = rows
    /\ opengen' = hwgen
    /\ pc' = "opening"
    /\ ret' = 0
    /\ UNCHANGED <<file, lasttrim, hwgen, itervars, logvars, tcamvars, fdvars,
                   wrvars, mbvars, memvars, capvars, trcvars, rdvars>>

(* open: a seq_tab_trim call (cim_obq_open trims to the words read).       *)
SeqTabTrim(n) ==
    /\ file = "seq_tab" /\ pc = "opening"
    /\ LET r == seq_tab_trim(tb, n)
       IN  /\ tb' = r.tb
           /\ ret' = r.ret
           /\ lasttrim' = [n |-> n, before |-> tb.rows, ret |-> r.ret]
    /\ UNCHANGED <<file, pc, rows0, hwgen, opengen, itervars, logvars,
                   tcamvars, fdvars, wrvars, mbvars, memvars, capvars,
                   trcvars, rdvars>>

SeqTabOpenReturn ==
    /\ file = "seq_tab" /\ pc = "opening"
    /\ pc' = "open"
    /\ ret' = 0
    /\ UNCHANGED <<file, tabvars, itervars, logvars, tcamvars, fdvars, wrvars,
                   mbvars, memvars, capvars, trcvars, rdvars>>

SeqTabStart(p) ==
    /\ file = "seq_tab" /\ pc = "open"
    /\ it \in {"idle", "shown", "end", "error"}
    /\ Started(p, seq_tab_start(tb, p))
    /\ UNCHANGED <<file, pc, ret, tabvars, logvars, tcamvars, fdvars, wrvars,
                   mbvars, memvars, capvars, trcvars, rdvars>>

SeqTabNext ==
    /\ file = "seq_tab" /\ pc = "open" /\ it = "shown"
    /\ LET r == seq_tab_next(tb, pos) IN Advanced(r.pos, r.v)
    /\ UNCHANGED <<file, pc, ret, tabvars, logvars, tcamvars, fdvars, wrvars,
                   mbvars, memvars, capvars, trcvars, rdvars>>

SeqTabShow ==
    /\ file = "seq_tab" /\ pc = "open" /\ it = "fresh"
    /\ Shown([pos |-> pos, o |-> seq_tab_show(tb, v)], 0)
    /\ UNCHANGED <<file, pc, ret, tabvars, logvars, tcamvars, fdvars, wrvars,
                   mbvars, memvars, capvars, trcvars, rdvars>>

(* The device goes on changing what the capture routine has read.          *)
HwChange ==
    /\ file = "seq_tab"
    /\ hwgen < MaxHwGen
    /\ hwgen' = hwgen + 1
    /\ UNCHANGED <<file, pc, ret, tb, rows0, lasttrim, opengen, itervars,
                   logvars, tcamvars, fdvars, wrvars, mbvars, memvars,
                   capvars, trcvars, rdvars>>

---------------------------------------------------------------------------
(* The devlog file.                                                        *)

(* devlog_open fails: the log's place is unknown, there is no memory, or   *)
(* the read through the memory window fails.                               *)
DevlogOpenFail ==
    /\ file = "devlog" /\ pc = "closed"
    /\ \/ dparams.start = 0 /\ ret' = -ENXIO
       \/ dparams.start # 0 /\ ret' \in {-ENOMEM, -EIO}
    /\ pc' = "failed"
    /\ UNCHANGED <<file, tabvars, logvars, itervars, tcamvars, fdvars, wrvars,
                   mbvars, memvars, capvars, trcvars, rdvars>>

(* devlog_open succeeds: the whole log is read in and scanned.             *)
DevlogOpen ==
    /\ file = "devlog" /\ pc = "closed"
    /\ dparams.start # 0
    /\ dinfo' = [nentries |-> dparams.size,
                 first |-> devlog_scan(fwlog, 0, U32Max, 0),
                 log |-> fwlog]
    /\ atopen' = fwlog
    /\ pc' = "open"
    /\ ret' = 0
    /\ UNCHANGED <<file, tabvars, fwlog, dparams, mbox_log, itervars,
                   tcamvars, fdvars, wrvars, mbvars, memvars, capvars,
                   trcvars, rdvars>>

DevlogStart(p) ==
    /\ file = "devlog" /\ pc = "open"
    /\ it \in {"idle", "shown", "end", "error"}
    /\ Started(p, devlog_start(dinfo, p))
    /\ UNCHANGED <<file, pc, ret, tabvars, logvars, tcamvars, fdvars, wrvars,
                   mbvars, memvars, capvars, trcvars, rdvars>>

DevlogNext ==
    /\ file = "devlog" /\ pc = "open" /\ it = "shown"
    /\ LET r == devlog_next(dinfo, pos) IN Advanced(r.pos, r.v)
    /\ UNCHANGED <<file, pc, ret, tabvars, logvars, tcamvars, fdvars, wrvars,
                   mbvars, memvars, capvars, trcvars, rdvars>>

DevlogShow ==
    /\ file = "devlog" /\ pc = "open" /\ it = "fresh"
    /\ Shown([pos |-> pos, o |-> devlog_show(dinfo, fwlog, v)], 0)
    /\ UNCHANGED <<file, pc, ret, tabvars, logvars, tcamvars, fdvars, wrvars,
                   mbvars, memvars, capvars, trcvars, rdvars>>

(* The firmware logs one more entry while the file is open.                *)
FwLogWrite(i) ==
    /\ file = "devlog" /\ pc = "open"
    /\ i \in 1..Len(fwlog)
    /\ fwlog = atopen
    /\ fwlog' = [fwlog EXCEPT ![i] = NewEntry]
    /\ UNCHANGED <<file, pc, ret, tabvars, dparams, dinfo, mbox_log, atopen,
                   itervars, tcamvars, fdvars, wrvars, mbvars, memvars,
                   capvars, trcvars, rdvars>>

---------------------------------------------------------------------------
(* The mboxlog file.                                                       *)

MboxlogOpen ==
    /\ file = "mboxlog" /\ pc = "closed"
    /\ atopen' = mbox_log
    /\ pc' = "open"
    /\ ret' = 0
    /\ UNCHANGED <<file, tabvars, fwlog, dparams, dinfo, mbox_log, itervars,
                   tcamvars, fdvars, wrvars, mbvars, memvars, capvars,
                   trcvars, rdvars>>

MboxlogStart(p) ==
    /\ file = "mboxlog" /\ pc = "open"
    /\ it \in {"idle", "shown", "end", "error"}
    /\ Started(p, mboxlog_start(mbox_log, p))
    /\ UNCHANGED <<file, pc, ret, tabvars, logvars, tcamvars, fdvars, wrvars,
                   mbvars, memvars, capvars, trcvars, rdvars>>

MboxlogNext ==
    /\ file = "mboxlog" /\ pc = "open" /\ it = "shown"
    /\ LET r == mboxlog_next(mbox_log, pos) IN Advanced(r.pos, r.v)
    /\ UNCHANGED <<file, pc, ret, tabvars, logvars, tcamvars, fdvars, wrvars,
                   mbvars, memvars, capvars, trcvars, rdvars>>

(* cur is the log's cursor as mboxlog_show read it.                        *)
MboxlogShow ==
    /\ file = "mboxlog" /\ pc = "open" /\ it = "fresh"
    /\ Shown([pos |-> pos, o |-> mboxlog_show(mbox_log, v),
              cur |-> mbox_log.cursor], 0)
    /\ UNCHANGED <<file, pc, ret, tabvars, logvars, tcamvars, fdvars, wrvars,
                   mbvars, memvars, capvars, trcvars, rdvars>>

(* The driver sends a mailbox command, which is logged.                    *)
RecordMbox ==
    /\ file = "mboxlog"
    /\ mbox_log.seqno < MaxRecords
    /\ mbox_log' = t4_record_mbox(mbox_log)
    /\ UNCHANGED <<file, pc, ret, tabvars, fwlog, dparams, dinfo, atopen,
                   itervars, tcamvars, fdvars, wrvars, mbvars, memvars,
                   capvars, trcvars, rdvars>>

---------------------------------------------------------------------------
(* The mps_tcam file.                                                      *)

MpsTcamOpen ==
    /\ file = "mps_tcam" /\ pc = "closed"
    /\ atopen' = tcam
    /\ pc' = "open"
    /\ ret' = 0
    /\ UNCHANGED <<file, tabvars, fwlog, dparams, dinfo, mbox_log, tcamvars,
                   itervars, fdvars, wrvars, mbvars, memvars, capvars,
                   trcvars, rdvars>>

MpsTcamStart(p) ==
    /\ file = "mps_tcam" /\ pc = "open"
    /\ it \in {"idle", "shown", "end", "error"}
    /\ Started(p, mps_tcam_start(p))
    /\ UNCHANGED <<file, pc, ret, tabvars, logvars, tcamvars, fdvars, wrvars,
                   mbvars, memvars, capvars, trcvars, rdvars>>

MpsTcamNext ==
    /\ file = "mps_tcam" /\ pc = "open" /\ it = "shown"
    /\ LET r == mps_tcam_next(pos) IN Advanced(r.pos, r.v)
    /\ UNCHANGED <<file, pc, ret, tabvars, logvars, tcamvars, fdvars, wrvars,
                   mbvars, memvars, capvars, trcvars, rdvars>>

(* failed: whether t4_wr_mbox fails, should the row ask for it.            *)
MpsTcamShow(failed) ==
    /\ file = "mps_tcam" /\ pc = "open" /\ it = "fresh"
    /\ LET r == mps_tcam_show(chip, tcam, tcam_ctl, v, failed)
       IN  /\ failed => r.mbox = "failed"
           /\ Shown([pos |-> pos] @@ r, r.rc)
           /\ tcam_ctl' = r.ctl
    /\ UNCHANGED <<file, pc, ret, tabvars, logvars, chip, tcam, fdvars,
                   wrvars, mbvars, memvars, capvars, trcvars, rdvars>>

(* The driver rewrites a TCAM entry while the file is open.                *)
TcamRewrite(i) ==
    /\ file = "mps_tcam" /\ pc = "open"
    /\ i \in 1..Len(tcam)
    /\ tcam[i] # NewTcamRow
    /\ tcam' = [tcam EXCEPT ![i] = NewTcamRow]
    /\ UNCHANGED <<file, pc, ret, tabvars, logvars, chip, tcam_ctl, itervars,
                   fdvars, wrvars, mbvars, memvars, capvars, trcvars, rdvars>>

---------------------------------------------------------------------------
(* A tp_la row: field_desc_show on the word of the row.                    *)

FieldDescShow(ub) ==
    /\ file = "tp_la" /\ pc = "closed"
    /\ fdout' = field_desc_show(fdin.v, fdin.p, ub)
    /\ pc' = "open"
    /\ ret' = 0
    /\ UNCHANGED <<file, fdin, tabvars, logvars, tcamvars, itervars, wrvars,
                   mbvars, memvars, capvars, trcvars, rdvars>>

---------------------------------------------------------------------------
(* The files that are written.                                             *)

(* frc is what t4_set_trace_filter returns; before says what the byte      *)
(* before s holds when nothing is written (count is 0).  A copy of no      *)
(* bytes does not fail.                                                    *)
MpsTrcWrite(fault, frc, before) ==
    /\ file = "mps_trc" /\ pc = "closed"
    /\ before => wbuf = <<>>
    /\ fault = "efault" => wbuf # <<>>
    /\ \E r \in {mps_trc_write(adap, wbuf, fault, frc)} :
           /\ ret' = r.ret
           /\ hw' = r.hw
    /\ \E x \in {mps_trc_access(adap, wbuf, fault, before)} :
           /\ trc_ext' = x.ext
           /\ s_mem' = x.mem
    /\ pc' = "done"
    /\ UNCHANGED <<file, wbuf, wtoks, adap, rss_key, mbvars, tabvars, logvars,
                   tcamvars, itervars, fdvars, memvars, capvars, rdvars>>

(* t4_write_rss_key stores the key in the device.                          *)
RssKeyWrite(fault) ==
    /\ file = "rss_key" /\ pc = "closed"
    /\ \E r \in {rss_key_write(wbuf, fault)} :
           /\ ret' = r.ret
           /\ rss_key' = IF r.written THEN r.key ELSE rss_key
           /\ hw' = IF r.written
                    THEN <<[reg |-> "TP_RSS_SECRET_KEY", val |-> r.key]>>
                    ELSE hw
    /\ pc' = "done"
    /\ UNCHANGED <<file, wbuf, wtoks, adap, mbvars, tabvars, logvars,
                   tcamvars, itervars, fdvars, memvars, capvars, trcvars,
                   rdvars>>

(* A read of the rss_key file: t4_read_rss_key, then rss_key_show.         *)
RssKeyShow ==
    /\ file = "rss_key" /\ out = <<>>
    /\ out' = <<rss_key_show(rss_key)>>
    /\ pc' = IF pc = "done" THEN "read" ELSE pc
    /\ UNCHANGED <<file, ret, it, pos, v, lastop, startpos, nadv, ttrace,
                   wrvars, mbvars, tabvars, logvars, tcamvars, fdvars,
                   memvars, capvars, trcvars, rdvars>>

---------------------------------------------------------------------------
(* The mailbox file.  Callers of mbox_write run at the same time; a step   *)
(* of a caller is what it does up to and with one access to the device.    *)

(* Lines 1301-1310: the copy of the buffer and sscanf.                     *)
MboxWriteParse(c, fault) ==
    /\ file = "mbox" /\ mb_pc[c] = "idle"
    /\ \E r \in {mbox_parse(mb_buf[c], fault)} :
           IF r.ret # 0
           THEN /\ mb_pc' = [mb_pc EXCEPT ![c] = "done"]
                /\ mb_ret' = [mb_ret EXCEPT ![c] = r.ret]
                /\ UNCHANGED mb_data
           ELSE /\ mb_pc' = [mb_pc EXCEPT ![c] = "parsed"]
                /\ mb_data' = [mb_data EXCEPT ![c] = r.data]
                /\ UNCHANGED mb_ret
    /\ UNCHANGED <<file, pc, ret, mb_buf, mb_i, mb_seen, mailbox, mb_sent,
                   mb_fw, itervars, tabvars, logvars, tcamvars, fdvars,
                   wrvars, memvars, capvars, trcvars, rdvars>>

(* Lines 1318-1319: the read of the control register and the test of the   *)
(* owner.                                                                  *)
MboxWriteOwner(c) ==
    /\ file = "mbox" /\ mb_pc[c] = "parsed"
    /\ mb_seen' = [mb_seen EXCEPT ![c] = <<readl_ctrl(mailbox.owner)>>]
    /\ mailbox' = [mailbox EXCEPT !.owner = readl_ctrl(mailbox.owner)]
    /\ IF mbox_owned(readl_ctrl(mailbox.owner))
       THEN mb_pc' = [mb_pc EXCEPT ![c] = "writing"] /\ UNCHANGED mb_ret
       ELSE /\ mb_pc' = [mb_pc EXCEPT ![c] = "done"]
            /\ mb_ret' = [mb_ret EXCEPT ![c] = -EBUSY]
    /\ UNCHANGED <<file, pc, ret, mb_buf, mb_data, mb_i, mb_sent, mb_fw,
                   itervars, tabvars, logvars, tcamvars, fdvars, wrvars,
                   memvars, capvars, trcvars, rdvars>>

(* Lines 1321-1322: writeq(data[i], addr + 8 * i).                         *)
MboxWriteData(c) ==
    /\ file = "mbox" /\ mb_pc[c] = "writing" /\ mb_i[c] < MboxWords
    /\ mailbox' = [mailbox EXCEPT !.data[mb_i[c] + 1] = mb_data[c][mb_i[c] + 1]]
    /\ mb_i' = [mb_i EXCEPT ![c] = @ + 1]
    /\ mb_fw' = IF mailbox.owner = X_MBOWNER_FW THEN mb_fw \cup {c} ELSE mb_fw
    /\ UNCHANGED <<file, pc, ret, mb_buf, mb_pc, mb_data, mb_ret, mb_seen,
                   mb_sent, itervars, tabvars, logvars, tcamvars, fdvars,
                   wrvars, memvars, capvars, trcvars, rdvars>>

(* Lines 1324-1325: the write of the control register and the return.      *)
MboxWriteCtrl(c) ==
    /\ file = "mbox" /\ mb_pc[c] = "writing" /\ mb_i[c] = MboxWords
    /\ mailbox' = ctrl_valid_fw(mailbox)
    /\ mb_sent' = mb_sent \cup {[who |-> c, data |-> mailbox.data]}
    /\ mb_pc' = [mb_pc EXCEPT ![c] = "done"]
    /\ mb_ret' = [mb_ret EXCEPT ![c] = Len(mb_buf[c])]
    /\ UNCHANGED <<file, pc, ret, mb_buf, mb_data, mb_i, mb_seen, mb_fw,
                   itervars, tabvars, logvars, tcamvars, fdvars, wrvars,
                   memvars, capvars, trcvars, rdvars>>

(* The firmware takes the command of a mailbox it owns and gives the       *)
(* mailbox back to the driver.                                             *)
FwMboxReply ==
    /\ file = "mbox" /\ mailbox.owner = X_MBOWNER_FW /\ mailbox.valid
    /\ mailbox' = [mailbox EXCEPT !.owner = X_MBOWNER_PL, !.valid = FALSE]
    /\ UNCHANGED <<file, pc, ret, mb_buf, mb_pc, mb_data, mb_i, mb_ret,
                   mb_seen, mb_sent, mb_fw, itervars, tabvars, logvars,
                   tcamvars, fdvars, wrvars, memvars, capvars, trcvars,
                   rdvars>>

---------------------------------------------------------------------------
(* The capturing opens and mem_read, one step for each call that can fail  *)
(* and for each use of win0_lock.                                          *)

CapFrame == <<file, pc, ret, itervars, tabvars, logvars, tcamvars, fdvars,
              wrvars, mbvars, memvars, trcvars, rdvars>>

CapBegin(h, rc) ==
    /\ file = "capture" /\ h \in cap_run /\ cap_pc[h] = "idle"
    /\ h # "cim_la" => rc = 0
    /\ \E r \in {cap_begin(h, cap_in, rc)} :
          /\ cap_pc' = [cap_pc EXCEPT ![h] = r.pc]
          /\ cap_ret' = [cap_ret EXCEPT ![h] = r.ret]
    /\ UNCHANGED <<cap_run, cap_in, cap_rc, cap_tab, cap_log, win0_lock,
                   memwin, cap_from>>
    /\ UNCHANGED CapFrame

(* seq_open_tab, __seq_open_private or t4_alloc_mem.                       *)
CapAlloc(h, ok) ==
    /\ file = "capture" /\ cap_pc[h] = "begun"
    /\ IF ok
       THEN /\ cap_tab' = [cap_tab EXCEPT ![h] =
                              [state |-> "empty", rows |-> cap_rows(h, cap_in),
                               pos |-> IF h = "mem_read" THEN cap_in.pos ELSE 0]]
            /\ cap_log' = [cap_log EXCEPT ![h] = Append(@, "alloc")]
            /\ cap_pc' = [cap_pc EXCEPT ![h] = "allocated"]
            /\ UNCHANGED cap_ret
       ELSE /\ cap_ret' = [cap_ret EXCEPT ![h] = -ENOMEM]
            /\ cap_pc' = [cap_pc EXCEPT ![h] =
                             IF h = "mem_read" THEN "done" ELSE "failed"]
            /\ UNCHANGED <<cap_tab, cap_log>>
    /\ UNCHANGED <<cap_run, cap_in, cap_rc, win0_lock, memwin, cap_from>>
    /\ UNCHANGED CapFrame

(* spin_lock(&adap->win0_lock).                                            *)
CapLock(h) ==
    /\ file = "capture" /\ h \in WindowUsers /\ cap_pc[h] = "allocated"
    /\ lock_free(win0_lock)
    /\ win0_lock' = <<h>>
    /\ cap_log' = [cap_log EXCEPT ![h] = Append(@, "lock")]
    /\ cap_pc' = [cap_pc EXCEPT ![h] = "locked"]
    /\ UNCHANGED <<cap_run, cap_in, cap_ret, cap_rc, cap_tab, memwin, cap_from>>
    /\ UNCHANGED CapFrame

(* t4_memory_rw points the window at the memory to read ...                *)
CapSelect(h) ==
    /\ file = "capture" /\ cap_pc[h] = "locked"
    /\ memwin' = <<h>>
    /\ cap_pc' = [cap_pc EXCEPT ![h] = "selected"]
    /\ UNCHANGED <<cap_run, cap_in, cap_ret, cap_rc, cap_tab, cap_log,
                   win0_lock, cap_from>>
    /\ UNCHANGED CapFrame

(* ... and reads through it; the other handlers call their capture         *)
(* routine.  rc is what the routine returns.                               *)
CapRead(h, rc) ==
    /\ file = "capture"
    /\ cap_pc[h] = IF h \in WindowUsers THEN "selected" ELSE "allocated"
    /\ rc \in CapRcs(h)
    /\ cap_rc' = [cap_rc EXCEPT ![h] = rc]
    /\ cap_tab' = [cap_tab EXCEPT ![h].state = cap_filled(h, rc)]
    /\ cap_log' = [cap_log EXCEPT ![h] = Append(@, "read")]
    /\ cap_from' = [cap_from EXCEPT ![h] = IF h \in WindowUsers THEN memwin
                                           ELSE <<h>>]
    /\ cap_pc' = [cap_pc EXCEPT ![h] =
                     IF h \in WindowUsers THEN "read" ELSE "unlocked"]
    /\ UNCHANGED <<cap_run, cap_in, cap_ret, win0_lock, memwin>>
    /\ UNCHANGED CapFrame

(* spin_unlock(&adap->win0_lock).                                          *)
CapUnlock(h) ==
    /\ file = "capture" /\ cap_pc[h] = "read"
    /\ win0_lock' = <<>>
    /\ cap_log' = [cap_log EXCEPT ![h] = Append(@, "unlock")]
    /\ cap_pc' = [cap_pc EXCEPT ![h] = "unlocked"]
    /\ UNCHANGED <<cap_run, cap_in, cap_ret, cap_rc, cap_tab, memwin, cap_from>>
    /\ UNCHANGED CapFrame

(* The rest of the handler: the test of the return value, the release of   *)
(* the buffer, the trim, the copy to the user (fault: it fails).           *)
CapFinish(h, fault) ==
    /\ file = "capture" /\ cap_pc[h] = "unlocked"
    /\ fault => h = "mem_read" /\ cap_rc[h] = 0
    /\ \E r \in {IF h = "mem_read"
                 THEN mem_read_finish(cap_in, cap_rc[h], cap_tab[h], fault)
                 ELSE cap_open_finish(h, cap_rc[h], cap_tab[h])} :
          /\ cap_pc' = [cap_pc EXCEPT ![h] = r.pc]
          /\ cap_ret' = [cap_ret EXCEPT ![h] = r.ret]
          /\ cap_tab' = [cap_tab EXCEPT ![h] = r.tab]
          /\ cap_log' = [cap_log EXCEPT ![h] = @ \o r.log]
    /\ UNCHANGED <<cap_run, cap_in, cap_rc, win0_lock, memwin, cap_from>>
    /\ UNCHANGED CapFrame

(* A start, next or show of the session of an open that returned 0: it     *)
(* reads the buffer.                                                       *)
CapPage(h) ==
    /\ file = "capture" /\ cap_pc[h] = "open"
    /\ Len(SelectSeq(cap_log[h], IsShow)) < MaxPages
    /\ cap_log' = [cap_log EXCEPT ![h] = Append(@, "show_" \o cap_tab[h].state)]
    /\ UNCHANGED <<cap_run, cap_in, cap_pc, cap_ret, cap_rc, cap_tab,
                   win0_lock, memwin, cap_from>>
    /\ UNCHANGED CapFrame

---------------------------------------------------------------------------
(* mps_tcam_show on T6 in two sessions at a time: one step for each write  *)
(* of MPS_CLS_TCAM_DATA2_CTL and for the reads of the data registers that  *)
(* follow it.  Nothing is locked between them.                             *)

Readers == {"r1", "r2"}

RdFrame == <<file, pc, ret, itervars, tabvars, logvars, chip, tcam, fdvars,
             wrvars, mbvars, memvars, capvars, trcvars>>

(* Lines 1724-1730: the control word for the Y half of row idx is written. *)
TcamSelectY(r, idx) ==
    /\ file = "mps_tcam_t6" /\ rd_pc[r] = "idle"
    /\ idx < Len(tcam)
    /\ tcam_ctl' = tcam_ctl_word(idx, 0)
    /\ rd_idx' = [rd_idx EXCEPT ![r] = idx]
    /\ rd_pc' = [rd_pc EXCEPT ![r] = "sel_y"]
    /\ UNCHANGED <<rd_x, rd_y, rd_out>>
    /\ UNCHANGED RdFrame

(* Lines 1731-1734: tcamy is read from the data registers.                 *)
TcamReadY(r) ==
    /\ file = "mps_tcam_t6" /\ rd_pc[r] = "sel_y"
    /\ rd_y' = [rd_y EXCEPT ![r] = tcam_data(tcam, tcam_ctl)]
    /\ rd_pc' = [rd_pc EXCEPT ![r] = "got_y"]
    /\ UNCHANGED <<tcam_ctl, rd_idx, rd_x, rd_out>>
    /\ UNCHANGED RdFrame

(* Lines 1752-1753: ctl |= CTLXYBITSEL_V(1) is written.                    *)
TcamSelectX(r) ==
    /\ file = "mps_tcam_t6" /\ rd_pc[r] = "got_y"
    /\ tcam_ctl' = tcam_ctl_word(rd_idx[r], 1)
    /\ rd_pc' = [rd_pc EXCEPT ![r] = "sel_x"]
    /\ UNCHANGED <<rd_idx, rd_x, rd_y, rd_out>>
    /\ UNCHANGED RdFrame

(* Lines 1754-1757: tcamx is read from the data registers.                 *)
TcamReadX(r) ==
    /\ file = "mps_tcam_t6" /\ rd_pc[r] = "sel_x"
    /\ rd_x' = [rd_x EXCEPT ![r] = tcam_data(tcam, tcam_ctl)]
    /\ rd_pc' = [rd_pc EXCEPT ![r] = "got_x"]
    /\ UNCHANGED <<tcam_ctl, rd_idx, rd_y, rd_out>>
    /\ UNCHANGED RdFrame

(* Lines 1771-1775 and 1833-1870: the row is printed from the words read.   *)
TcamRender(r) ==
    /\ file = "mps_tcam_t6" /\ rd_pc[r] = "got_x"
    /\ rd_out' = [rd_out EXCEPT ![r] =
                     IF tcam_empty(rd_x[r], rd_y[r])
                     THEN <<[kind |-> "empty", idx |-> rd_idx[r]]>>
                     ELSE <<[kind |-> "row", idx |-> rd_idx[r]]
                            @@ tcamxy2valmask(rd_x[r], rd_y[r])>>]
    /\ rd_pc' = [rd_pc EXCEPT ![r] = "done"]
    /\ UNCHANGED <<tcam_ctl, rd_idx, rd_x, rd_y>>
    /\ UNCHANGED RdFrame

---------------------------------------------------------------------------
Files == {"seq_tab", "devlog", "mboxlog", "mps_tcam", "tp_la", "mps_trc",
          "rss_key", "mbox", "meminfo",
          "capture", "mps_tcam_t6"}

Init ==
    /\ file \in Files
    /\ pc = "closed"
    /\ ret = 0
    /\ IterInit
    /\ tb = NoTab /\ rows0 = 0 /\ lasttrim = NoTrim /\ hwgen = 0 /\ opengen = 0
    /\ dinfo = NoDinfo
    /\ atopen = <<>>
    /\ IF file = "devlog"
       THEN \/ fwlog = <<>> /\ dparams = [start |-> 0, size |-> 0]
            \/ fwlog \in Logs /\ dparams = [start |-> 1, size |-> Len(fwlog)]
       ELSE fwlog = <<>> /\ dparams = [start |-> 0, size |-> 0]
    /\ IF file = "mboxlog"
       THEN \E n \in 1..MaxEntries : mbox_log = NewMboxLog(n)
       ELSE mbox_log = NoMboxLog
    /\ tcam_ctl = tcam_ctl_word(0, 0)
    /\ IF file = "mps_tcam"
       THEN /\ chip \in [ver : {5, 6}, rplc_size : {128, 256}]
            /\ \E r \in TcamRowSet : tcam = [i \in 1..MaxMacAddr |-> r]
       ELSE IF file = "mps_tcam_t6"
       THEN /\ chip = [ver |-> 6, rplc_size |-> 128]
            /\ \E a, b \in {r \in TcamRowSet : ~r.replicate} :
                  /\ a # b
                  /\ tcam = [i \in 1..MaxMacAddr |-> IF i % 2 = 1 THEN a ELSE b]
       ELSE /\ chip = [ver |-> 5, rplc_size |-> 128]
            /\ tcam = <<>>
    /\ rd_pc = [r \in Readers |-> "idle"]
    /\ rd_idx = [r \in Readers |-> 0]
    /\ rd_x = [r \in Readers |-> Zero64]
    /\ rd_y = [r \in Readers |-> Zero64]
    /\ rd_out = [r \in Readers |-> <<>>]
    /\ fdout = <<>>
    /\ IF file = "tp_la"
       THEN fdin \in [v : FieldWords, p : FieldLists]
       ELSE fdin = [v |-> Zero64, p |-> <<>>]
    /\ hw = <<>>
    /\ rss_key = NoKey
    /\ IF file = "mps_trc"
       THEN /\ \E c \in TrcInputs : wtoks = c.toks /\ wbuf = c.buf
            /\ adap \in Adapters
       ELSE /\ wtoks = <<>>
            /\ adap = NoAdapter
            /\ IF file = "rss_key" THEN wbuf \in KeyInputs ELSE wbuf = <<>>
    /\ mb_pc = [c \in Callers |-> "idle"]
    /\ mb_data = [c \in Callers |-> <<>>]
    /\ mb_i = [c \in Callers |-> 0]
    /\ mb_ret = [c \in Callers |-> 0]
    /\ mb_seen = [c \in Callers |-> <<>>]
    /\ mb_sent = {}
    /\ mb_fw = {}
    /\ IF file = "mbox"
       THEN /\ \E b \in MboxInputs : mb_buf = [a |-> b, b |-> MboxSecond]
            /\ \E o \in {X_MBOWNER_NONE, X_MBOWNER_FW, X_MBOWNER_PL} :
                   mailbox = [data |-> [k \in 1..MboxWords |-> Zero64x],
                              owner |-> o, valid |-> o = X_MBOWNER_FW]
       ELSE /\ mb_buf = [c \in Callers |-> <<>>]
            /\ mailbox = [data |-> <<>>, owner |-> X_MBOWNER_NONE,
                          valid |-> FALSE]
    /\ mi_out = NoMemOut
    /\ trc_ext = NoExtent
    /\ s_mem = [size |-> 0, lo |-> 0, hi |-> -1, frees |-> 0, cut |-> FALSE]
    /\ cap_pc = [h \in CapHandlers |-> "idle"]
    /\ cap_ret = [h \in CapHandlers |-> 0]
    /\ cap_rc = [h \in CapHandlers |-> 0]
    /\ cap_tab = [h \in CapHandlers |-> NoCapTab]
    /\ cap_log = [h \in CapHandlers |-> <<>>]
    /\ cap_from = [h \in CapHandlers |-> <<>>]
    /\ win0_lock = <<>>
    /\ memwin = <<>>
    /\ IF file = "capture"
       THEN cap_run \in CapRuns /\ cap_in \in CapInputs
       ELSE cap_run = {} /\ cap_in = CHOOSE i \in CapInputs : TRUE
    /\ IF file = "meminfo" THEN mi_regs \in MemRegSet ELSE mi_regs = NoMemRegs

vars == <<file, pc, ret, itervars, tabvars, logvars, tcamvars, fdvars, wrvars,
          mbvars, memvars, capvars, trcvars, rdvars>>

Next ==
    \/ \E r \in 0..MaxRows, w \in 1..MaxWidth, h \in 0..1 : SeqTabOpen(r, w, h)
    \/ \E n \in 0..(MaxRows + 1) : SeqTabTrim(n)
    \/ SeqTabOpenReturn
    \/ \E p \in 0..(MaxRows + 2) : SeqTabStart(p)
    \/ SeqTabNext
    \/ SeqTabShow
    \/ HwChange
    \/ DevlogOpenFail
    \/ DevlogOpen
    \/ \E p \in 0..(MaxEntries + 2) : DevlogStart(p)
    \/ DevlogNext
    \/ DevlogShow
    \/ \E i \in 1..MaxEntries : FwLogWrite(i)
    \/ MboxlogOpen
    \/ \E p \in 0..(MaxEntries + 2) : MboxlogStart(p)
    \/ MboxlogNext
    \/ MboxlogShow
    \/ RecordMbox
    \/ MpsTcamOpen
    \/ \E p \in 0..(MaxMacAddr + 2) : MpsTcamStart(p)
    \/ MpsTcamNext
    \/ \E failed \in BOOLEAN : MpsTcamShow(failed)
    \/ \E i \in 1..MaxMacAddr : TcamRewrite(i)
    \/ \E ub \in {"wrap", "zero"} : FieldDescShow(ub)
    \/ \E fault \in {"none", "nomem", "efault"}, frc \in {0, -EINVAL},
          before \in BOOLEAN :
          MpsTrcWrite(fault, frc, before)
    \/ \E fault \in {"none", "efault"} : RssKeyWrite(fault)
    \/ RssKeyShow
    \/ \E c \in Callers, fault \in BOOLEAN : MboxWriteParse(c, fault)
    \/ \E c \in Callers : MboxWriteOwner(c)
    \/ \E c \in Callers : MboxWriteData(c)
    \/ \E c \in Callers : MboxWriteCtrl(c)
    \/ FwMboxReply
    \/ \E ub \in MemJunk : MeminfoShow(ub)
    \/ \E h \in CapHandlers, rc \in {0, -EIO} : CapBegin(h, rc)
    \/ \E h \in CapHandlers, ok \in BOOLEAN : CapAlloc(h, ok)
    \/ \E h \in CapHandlers : CapLock(h)
    \/ \E h \in CapHandlers : CapSelect(h)
    \/ \E h \in CapHandlers : \E rc \in CapRcs(h) : CapRead(h, rc)
    \/ \E h \in CapHandlers : CapUnlock(h)
    \/ \E h \in CapHandlers, fault \in BOOLEAN : CapFinish(h, fault)
    \/ \E h \in CapHandlers : CapPage(h)
    \/ \E r \in Readers, idx \in 0..(MaxMacAddr - 1) : TcamSelectY(r, idx)
    \/ \E r \in Readers : TcamReadY(r)
    \/ \E r \in Readers : TcamSelectX(r)
    \/ \E r \in Readers : TcamReadX(r)
    \/ \E r \in Readers : TcamRender(r)

Spec == Init /\ [][Next]_vars

---------------------------------------------------------------------------
(* Helpers of the properties.                                              *)

IsPrefix(s, t) == Len(s) <= Len(t) /\ SubSeq(t, 1, Len(s)) = s

IsRow(c) == c # NULL /\ c # SEQ_START_TOKEN

RowIndex(t, c) == CDiv(c - t.data, t.width)

(* The cookies of a whole pass over table t: the header token when the     *)
(* table has a header, the rows 0 .. rows-1 in order, then End.            *)
ExpectedPass(t) ==
    (IF t.skip_first # 0 THEN <<SEQ_START_TOKEN>> ELSE <<>>)
        \o [i \in 1..t.rows |-> t.data + (i - 1) * t.width]
        \o <<NULL>>

(* The cookie a pass holds at position p when it is started at position 0  *)
(* and advanced with seq_tab_next; End when it ends before reaching p.     *)
RECURSIVE PassWalk(_, _, _, _)
PassWalk(t, c, cp, p) ==
    IF cp = p THEN c
    ELSE IF c = NULL THEN NULL
    ELSE LET r == seq_tab_next(t, cp)
         IN  IF r.v = NULL THEN NULL ELSE PassWalk(t, r.v, r.pos, p)

PassFromZero(t, p) == PassWalk(t, seq_tab_start(t, 0), 0, p)

InTab == file = "seq_tab" /\ pc = "open"

(* C1: a pass over a seq_tab started at position 0 returns the header      *)
(* token first exactly when the table has a header, then the rows 0..n-1   *)
(* in order, each once, and End on advance n (n+1 with a header); no       *)
(* cookie any traversal returns is a row of index >= n.                    *)
C1_SequentialPass ==
    InTab =>
        /\ \A k \in 1..Len(ttrace) :
              IsRow(ttrace[k]) =>
                  /\ RowIndex(tb, ttrace[k]) >= 0
                  /\ RowIndex(tb, ttrace[k]) < tb.rows
        /\ (startpos = 0 /\ ttrace # <<>>) =>
              /\ IsPrefix(ttrace, ExpectedPass(tb))
              /\ (ttrace[1] = SEQ_START_TOKEN) <=> (tb.skip_first # 0)
              /\ it = "end" =>
                    /\ ttrace = ExpectedPass(tb)
                    /\ nadv = tb.rows + tb.skip_first

C1_Witness ==
    /\ InTab /\ startpos = 0 /\ it = "end"
    /\ tb.rows = 3 /\ tb.skip_first = 1 /\ nadv = 4
    /\ Len(out) = 4

(* C2: seq_tab_trim(p, n) with n <= rows returns 0 and sets rows to n, so  *)
(* that a later pass ends after n rows; with n > rows it returns -EINVAL   *)
(* and leaves rows alone; no trim ever raises the row count.               *)
C2_TrimState ==
    (file = "seq_tab" /\ lasttrim.n >= 0) =>
        /\ lasttrim.n <= lasttrim.before =>
              (lasttrim.ret = 0 /\ tb.rows = lasttrim.n)
        /\ lasttrim.n > lasttrim.before =>
              (lasttrim.ret = -EINVAL /\ tb.rows = lasttrim.before)
        /\ tb.rows <= rows0
        /\ (InTab /\ startpos = 0 /\ it = "end") =>
              Cardinality({k \in 1..Len(ttrace) : IsRow(ttrace[k])}) = tb.rows

C2_Trim ==
    /\ []C2_TrimState
    /\ [][pc # "closed" => tb'.rows <= tb.rows]_vars

C2_Witness ==
    /\ InTab /\ startpos = 0 /\ it = "end"
    /\ rows0 = 3 /\ tb.rows = 1
    /\ lasttrim.n = 2 /\ lasttrim.ret = -EINVAL
    /\ Len(out) = 1

(* C3: seq_tab_start at position p returns the cookie a pass started at    *)
(* position 0 holds at p; a row cookie lies (p - header) * width bytes     *)
(* into the snapshot, and the row renderer gets index p - header and the   *)
(* snapshot bytes at that offset.                                          *)
C3_Restartable ==
    InTab =>
        /\ lastop = "start" => v = PassFromZero(tb, pos)
        /\ (lastop # "none" /\ IsRow(v)) =>
              v - tb.data = (pos - tb.skip_first) * tb.width
        /\ \A k \in 1..Len(out) :
              LET p == out[k].pos
                  o == out[k].o
              IN  IF p = 0 /\ tb.skip_first # 0
                  THEN o.kind = "hdr"
                  ELSE /\ o.kind = "row"
                       /\ o.idx = p - tb.skip_first
                       /\ o.bytes = [j \in 1..tb.width |->
                              <<opengen, (p - tb.skip_first) * tb.width + j - 1>>]

C3_Witness ==
    /\ InTab /\ lastop = "start" /\ startpos = 2
    /\ tb.skip_first = 1 /\ tb.width = 2 /\ tb.rows = 3
    /\ Len(out) = 1 /\ out[1].o.kind = "row" /\ out[1].o.idx = 1
    /\ hwgen # opengen

InDevlog == file = "devlog" /\ pc = "open"

InMboxlog == file = "mboxlog" /\ pc = "open"

(* The indices (from 1) of the entries of a log that are in use.           *)
Live(log) == {i \in 1..Len(log) : log[i].timestamp # 0}

NotHdr(e) == e.o.kind # "hdr"

(* The physical slots the renderer looked at in the running traversal.     *)
SlotsOf(outs) ==
    LET rs == SelectSeq(outs, NotHdr)
    IN  [k \in 1..Len(rs) |-> rs[k].o.slot]

(* The slots of a ring of n entries in order from slot f.                  *)
Ring(f, n) == [i \in 1..n |-> (f + i - 1) % n]

FullPass == startpos = 0 /\ it = "end"

(* C4: after devlog_open, when some entry of the log is in use, first is   *)
(* the index of an entry in use whose sequence number, as an unsigned      *)
(* 32-bit value, is the lowest of the entries in use.                      *)
C4_FirstIsMinimum ==
    (InDevlog /\ Live(dinfo.log) # {}) =>
        /\ dinfo.first + 1 \in Live(dinfo.log)
        /\ \A j \in Live(dinfo.log) :
              ~Lt32(be32_to_cpu(dinfo.log[j].seqno),
                    be32_to_cpu(dinfo.log[dinfo.first + 1].seqno))

(* C5 as claimed: the renderers of the device log and of the mailbox log   *)
(* never look at a slot >= entry_count, and a full pass visits every       *)
(* physical slot exactly once, in ring order from the first one.           *)
C5_EverySlotOnce ==
    (InDevlog \/ InMboxlog) =>
        LET n == IF InDevlog THEN dinfo.nentries ELSE mbox_log.size
        IN  /\ \A k \in 1..Len(out) : out[k].o.kind # "oob"
            /\ (FullPass /\ n > 0) =>
                  /\ Len(SlotsOf(out)) = n
                  /\ SlotsOf(out) = Ring(SlotsOf(out)[1], n)

(* C5 as amended: the device log renderer uses slot (first + i) mod        *)
(* entry_count with the first found at open, so its full pass visits every *)
(* slot once, in ring order from first; the mailbox log renderer uses slot *)
(* (cursor + i) mod size with the cursor as it is when the row is          *)
(* rendered, so its full pass visits every slot once if the cursor did not *)
(* move during the pass; neither looks at a slot >= entry_count.           *)
C5_RingOrder ==
    /\ InDevlog =>
          /\ dinfo.nentries > 0 => dinfo.first < dinfo.nentries
          /\ \A k \in 1..Len(out) :
                NotHdr(out[k]) =>
                    /\ out[k].o.kind # "oob"
                    /\ out[k].o.slot < dinfo.nentries
                    /\ out[k].o.slot =
                           (dinfo.first + out[k].pos - 1) % dinfo.nentries
          /\ FullPass => SlotsOf(out) = Ring(dinfo.first, dinfo.nentries)
    /\ InMboxlog =>
          /\ \A k \in 1..Len(out) :
                NotHdr(out[k]) =>
                    /\ out[k].o.kind # "oob"
                    /\ out[k].o.slot < mbox_log.size
                    /\ out[k].o.slot =
                           (out[k].cur + out[k].pos - 1) % mbox_log.size
          /\ (FullPass /\ \A k \in 1..Len(out) : out[k].cur = mbox_log.cursor)
                => SlotsOf(out) = Ring(mbox_log.cursor, mbox_log.size)

C5_Witness ==
    /\ InDevlog /\ FullPass
    /\ dinfo.nentries = 3 /\ dinfo.first = 2
    /\ SlotsOf(out) = <<2, 0, 1>>

(* C6: an entry with timestamp zero is never rendered: its position        *)
(* renders nothing and the pass goes on, so a full pass shows every        *)
(* position once and renders exactly the entries in use; with no entry in  *)
(* use it renders the header only.                                         *)
C6_SkipUnused ==
    (InDevlog \/ InMboxlog) =>
        LET n == IF InDevlog THEN dinfo.nentries ELSE mbox_log.size
            rendered == SelectSeq(out, LAMBDA e : e.o.kind # "skip")
            inuse == IF InDevlog THEN Live(dinfo.log)
                     ELSE Live(mbox_log.entries)
        IN  /\ \A k \in 1..Len(out) :
                  /\ out[k].o.kind = "entry" =>
                        /\ out[k].o.timestamp # 0
                        /\ out[k].o.slot + 1 \in inuse
                  /\ (InDevlog /\ out[k].o.kind = "skip") =>
                        out[k].o.slot + 1 \notin inuse
            /\ FullPass =>
                  /\ Len(out) = n + 1
                  /\ ttrace = <<SEQ_START_TOKEN>>
                                 \o [i \in 1..n |-> i + 1] \o <<NULL>>
                  /\ (inuse = {}) => rendered = <<out[1]>>
                  /\ out[1].o.kind = "hdr"
                  /\ InDevlog => Len(rendered) = 1 + Cardinality(inuse)

C6_Witness ==
    /\ InDevlog /\ FullPass
    /\ dinfo.nentries = 3
    /\ Live(dinfo.log) = {1, 3}
    /\ Len(out) = 4
    /\ out[2].o.kind = "entry" /\ out[3].o.kind = "skip"
    /\ out[4].o.kind = "entry"

InTcam == file = "mps_tcam" /\ pc = "open"

(* The cookie start hands to show for position p of each file.             *)
CookieAt(p) ==
    IF file = "devlog" THEN devlog_start(dinfo, p)
    ELSE IF file = "mboxlog" THEN mboxlog_start(atopen, p)
    ELSE mps_tcam_start(p)

(* What entry e of out would be, were it rendered from the state the       *)
(* device or the log had when the file was opened.                         *)
AsAtOpen(e) ==
    IF file = "devlog" THEN devlog_show(dinfo, atopen, CookieAt(e.pos))
    ELSE IF file = "mboxlog" THEN mboxlog_show(atopen, CookieAt(e.pos))
    ELSE mps_tcam_show(chip, atopen, e.ctl, CookieAt(e.pos),
                       e.mbox = "failed").o

(* Every byte of every seq_tab row rendered was captured by the open.      *)
TabFromOpen ==
    InTab => \A k \in 1..Len(out) :
                out[k].o.kind = "row" =>
                    \A j \in 1..Len(out[k].o.bytes) :
                        out[k].o.bytes[j][1] = opengen

shared == <<hwgen, fwlog, dparams, mbox_log, chip, tcam>>

InTpLa == file = "tp_la" /\ pc = "open"

(* Bits start .. start + width - 1 of word w, as a word.                   *)
FieldOf(w, start, width) ==
    [i \in 1..64 |-> IF i <= width /\ i + start <= 64 THEN w[i + start] ELSE 0]

C9_Placeholder ==
    InTcam =>
        \A k \in 1..Len(out) :
            NotHdr(out[k]) =>
                LET e == out[k]
                    both == \E i \in 1..64 : e.x[i] = 1 /\ e.y[i] = 1
                IN  /\ (e.o.kind = "empty") <=> both
                    /\ e.o.kind = "empty" =>
                          /\ e.mbox = "none"
                          /\ DOMAIN e.o = {"kind", "idx"}
                    /\ e.o.kind = "row" =>
                          /\ e.o.mask = [i \in 1..64 |->
                                            IF e.x[i] = 1 \/ e.y[i] = 1
                                            THEN 1 ELSE 0]
                          /\ e.o.addr = [m \in 1..6 |-> ByteOf(e.y, 6 - m)]
                    /\ (e.x = U64(<<255>>) /\ e.y = U64(<<255>>)) =>
                          e.o.kind = "empty"
                    /\ (e.x = U64(<<15>>) /\ e.y = U64(<<240>>)) =>
                          /\ e.o.kind = "row"
                          /\ e.o.mask = U64(<<255>>)
                          /\ e.o.addr = <<0, 0, 0, 0, 0, 240>>

(* One pass rendered the placeholder for the cell 0xFF / 0xFF and decoded  *)
(* a cell rewritten to 0x0200 / 0x0100.                                    *)
C9_Witness ==
    /\ InTcam
    /\ \E k \in 1..Len(out) :
          /\ NotHdr(out[k]) /\ out[k].o.kind = "row"
          /\ out[k].x = U64(<<2, 0>>) /\ out[k].y = U64(<<1, 0>>)
          /\ out[k].o.mask = U64(<<3, 0>>)
          /\ out[k].o.addr = <<0, 0, 0, 0, 1, 0>>
    /\ \E k \in 1..Len(out) :
          /\ NotHdr(out[k]) /\ out[k].o.kind = "empty"
          /\ out[k].x = U64(<<255>>) /\ out[k].y = U64(<<255>>)

(* C10: when the replication round trip of a row fails, mps_tcam_show      *)
(* renders the row with every replication word zero, logs a warning and    *)
(* nothing else, returns 0, and the pass goes on to the rows after it: a   *)
(* full pass renders every row of the table.                               *)
C10_ReplicationFailure ==
    InTcam =>
        /\ it # "error"
        /\ \A k \in 1..Len(out) :
              /\ out[k].rc = 0
              /\ out[k].warn <=> out[k].mbox = "failed"
              /\ out[k].mbox = "failed" =>
                    /\ out[k].o.kind = "row"
                    /\ Len(out[k].o.rplc) = chip.rplc_size \div 32
                    /\ \A n \in 1..Len(out[k].o.rplc) :
                          out[k].o.rplc[n] = Zero32
        /\ FullPass =>
              /\ Len(out) = Len(tcam) + 1
              /\ \A k \in 1..Len(out) : out[k].pos = k - 1

(* A full pass in which the round trip of the first row failed and the     *)
(* rows after it were rendered.                                            *)
C10_Witness ==
    /\ InTcam /\ FullPass
    /\ Len(out) = Len(tcam) + 1
    /\ out[2].mbox = "failed" /\ out[2].o.kind = "row"
    /\ out[2].o.rplc = [n \in 1..8 |-> Zero32]
    /\ out[3].mbox = "ok"

---------------------------------------------------------------------------
(* The trace filter commands.                                              *)

(* A write to mps_trc whose buffer was allocated and copied.               *)
InTrc == file = "mps_trc" /\ pc = "done" /\ ret \notin {-ENOMEM, -EFAULT}

Applied == \E k \in 1..Len(hw) : hw[k].reg = "t4_set_trace_filter"

(* The call of t4_set_trace_filter: the last thing the handler does.       *)
TheCall == hw[Len(hw)]

HasTok(t) == \E k \in 1..Len(wtoks) : wtoks[k] = t

(* The number of words of the command that are in the set ts.              *)
NumToks(ts) == Cardinality({k \in 1..Len(wtoks) : wtoks[k] \in ts})

PortTokens == {Tok_rx0, Tok_tx1, Tok_loopback2}

(* tp.port of a port word: rx<i> is i, tx<i> is i + 4, loopback<i> i + 8.  *)
PortOf(t) == IF t = Tok_rx0 THEN 0 ELSE IF t = Tok_tx1 THEN 5 ELSE 10

(* The adapter has the port the word names.                                *)
PortPresent(t) ==
    IF t = Tok_rx0 THEN adap.chan_map[1] < MAX_NPORTS
    ELSE IF t = Tok_tx1 THEN adap.chan_map[2] < MAX_NPORTS
    ELSE TRUE

(* C11: a command of a port, qid=<n>, snaplen=<s> with s <= 9600 and one   *)
(* pattern <hex>/<mask>@<offset> is parsed and applied: "rx0 qid=3         *)
(* snaplen=9600 deadbeef/ffffffff@0" sets the filter with port rx0,        *)
(* snap_len 9600, pattern 0xdeadbeef, mask 0xffffffff and skip_ofst 0, and *)
(* routes to queue 3.                                                      *)
C11_PatternCommand ==
    (InTrc /\ Len(wtoks) = 4 /\ wtoks[1] \in PortTokens
        /\ PortPresent(wtoks[1])
        /\ SubSeq(wtoks, 2, 4) = <<Tok_qid3, Tok_snaplen9600, Tok_pat8m0>>)
        => /\ Applied
           /\ TheCall.enable = 1
           /\ TheCall.tp.port = PortOf(wtoks[1])
           /\ TheCall.tp.snap_len = 9600
           /\ TheCall.tp.data[1] = <<57005, 48879>>
           /\ TheCall.tp.mask[1] = U32Max
           /\ TheCall.tp.skip_ofst = 0
           /\ \E k \in 1..Len(hw) :
                  hw[k] = [reg |-> qid_reg(adap), val |-> <<0, 3>>]

(* C12 as stated: a command with the word "disable" in it is a disable     *)
(* command (enable = 0), whatever its other words are.                     *)
C12_DisableToken ==
    (InTrc /\ HasTok(Tok_disable) /\ Len(wbuf) <= 1024)
        => Applied /\ TheCall.enable = 0

(* C12: the filter is disabled exactly when the whole input is "disable",  *)
(* with or without one newline after it: then t4_set_trace_filter is       *)
(* called with enable = 0 and nothing else is written.  In any other input *)
(* "disable" is a word like the others, and the call, if there is one, has *)
(* enable = 1.                                                             *)
C12_DisableExact ==
    InTrc =>
        /\ (wbuf \in {Disable, Disable \o <<"\n">>})
               <=> (Applied /\ TheCall.enable = 0)
        /\ (wbuf \in {Disable, Disable \o <<"\n">>})
               => /\ Len(hw) = 1
                  /\ ret \in {Len(wbuf), -EINVAL}

C12_Witness ==
    /\ InTrc /\ wbuf = Disable \o <<"\n">> /\ ret = 8
    /\ hw = <<SetTraceFilter(adap, "uninitialized", 0)>>

(* C13: a command with snaplen=<v>, v > 9600, or minlen=<v>, v above the   *)
(* field maximum, fails with -EINVAL and t4_set_trace_filter is not        *)
(* called; snaplen=9600 is accepted.                                       *)
C13_LengthLimits ==
    /\ (InTrc /\ (HasTok(Tok_snaplen9601) \/ HasTok(Tok_minlen512)))
           => ret = -EINVAL /\ ~Applied
    /\ (InTrc /\ wtoks = <<Tok_rx0, Tok_snaplen9600>>)
           => Applied /\ TheCall.tp.snap_len = 9600

(* The words no command may have: a port that does not exist, a value of   *)
(* qid= or snaplen= that is no decimal number, an unknown word, a mask     *)
(* shorter or longer than its pattern, a pattern longer than the trace.    *)
Malformed ==
    {Tok_rx7, Tok_qidx, Tok_snaplenx, Tok_zzz, Tok_foo, Tok_pat3short,
     Tok_pat3long, LongPattern(TRACE_LEN * 2 + 1)}

(* C14: every malformed word makes the write fail with -EINVAL; the write  *)
(* returns the byte count only when the whole command was validated and    *)
(* t4_set_trace_filter was called and returned 0.                          *)
C14_Validation ==
    (InTrc /\ Len(wbuf) <= 1024) =>
        /\ NumToks(Malformed) > 0 => ret = -EINVAL
        /\ ret = Len(wbuf) => Applied /\ NumToks(Malformed) = 0

(* C15: when the write fails validation no register other than MPS_TRC_CFG *)
(* has been written.                                                       *)
C15_NoPartialApplication ==
    (InTrc /\ ~Applied) =>
        \A k \in 1..Len(hw) : hw[k].reg = "MPS_TRC_CFG"

(* C16 as stated: of two port words the first one is the port of the       *)
(* filter.                                                                 *)
C16_FirstPortWins ==
    (InTrc /\ Len(wtoks) = 2 /\ wtoks[1] \in PortTokens
        /\ wtoks[2] \in PortTokens /\ PortPresent(wtoks[1]))
        => Applied /\ TheCall.tp.port = PortOf(wtoks[1])

(* C16: a command with more than one port word is never applied: the       *)
(* second port word is rejected with -EINVAL when the parse gets to it,    *)
(* and it gets to it or fails before unless a qid= value that is no number *)
(* ended it.                                                               *)
C16_SecondPortRejected ==
    (InTrc /\ NumToks(PortTokens) >= 2) =>
        /\ ~Applied
        /\ ~HasTok(Tok_qidx) => ret = -EINVAL

C16_Witness ==
    /\ InTrc /\ wtoks = <<Tok_rx0, Tok_tx1>> /\ PortPresent(Tok_tx1)
    /\ ret = -EINVAL /\ Len(hw) = 1 /\ hw[1].reg = "MPS_TRC_CFG"

(* C17: a mask with fewer or more hex digits than its pattern makes the    *)
(* command fail with -EINVAL; a pattern of n digits without a mask gets a  *)
(* mask of ones over its n nibbles and zeros after them, in the words of   *)
(* the data.                                                               *)
C17_MaskLength ==
    /\ (InTrc /\ (HasTok(Tok_pat3short) \/ HasTok(Tok_pat3long)))
           => ret = -EINVAL
    /\ (InTrc /\ wtoks = <<Tok_rx0, Tok_pat3>>)
           => /\ Applied
              /\ TheCall.tp.data[1] = <<43968, 0>>
              /\ TheCall.tp.mask[1] = <<65520, 0>>
              /\ \A k \in 2..(TRACE_LEN \div 4) :
                     TheCall.tp.data[k] = Zero32 /\ TheCall.tp.mask[k] = Zero32

(* C18: a command has at most two patterns and the first of two is         *)
(* anchored at 0: three patterns or more, or two with the first at another *)
(* offset, fail with -EINVAL.                                              *)
C18_TwoPatterns ==
    (InTrc /\ (NumToks(TrcPatterns) >= 3
               \/ (NumToks(TrcPatterns) = 2 /\ Len(wtoks) = 3
                   /\ wtoks[2] = Tok_pat2at8 /\ wtoks[3] \in TrcPatterns)))
        => ret = -EINVAL

---------------------------------------------------------------------------
(* The RSS key.                                                            *)

(* A write to rss_key whose buffer was copied, "read" once the file was    *)
(* read after it.                                                          *)
InKey == file = "rss_key" /\ pc \in {"done", "read"} /\ ret # -EFAULT

(* What was written without the white space at its end.                    *)
KeyTrim ==
    LET ks == {k \in 1..Len(wbuf) : wbuf[k] \notin SpaceChars}
        n == IF ks = {} THEN 0 ELSE CHOOSE k \in ks : \A m \in ks : m <= k
    IN  SubSeq(wbuf, 1, n)

(* 80 hex digits and nothing else.                                         *)
IsKeyText(s) == Len(s) = 80 /\ \A k \in 1..80 : s[k] \in XdigitChars

KeyWritten == hw # <<>>

ToLower(c) ==
    IF \E k \in 1..6 : UpperHex[k] = c
    THEN LowerHex[CHOOSE k \in 1..6 : UpperHex[k] = c]
    ELSE c

(* The value of a hex digit and of 8 of them, the first the most           *)
(* significant.                                                            *)
DigitValue(c) ==
    (CHOOSE k \in 1..16 : (DecChars \o LowerHex)[k] = ToLower(c)) - 1

WordValue(ds) ==
    <<DigitValue(ds[1]) * 4096 + DigitValue(ds[2]) * 256
          + DigitValue(ds[3]) * 16 + DigitValue(ds[4]),
      DigitValue(ds[5]) * 4096 + DigitValue(ds[6]) * 256
          + DigitValue(ds[7]) * 16 + DigitValue(ds[8])>>

(* C19: rss_key_write takes the input exactly when it is 80 hex digits     *)
(* once the white space at its end is left out; any other input fails with *)
(* -EINVAL and t4_write_rss_key is not called.                             *)
C19_ExactDigits ==
    InKey =>
        IF IsKeyText(KeyTrim)
        THEN ret = Len(wbuf) /\ KeyWritten
        ELSE ret = -EINVAL /\ ~KeyWritten

(* C20 as stated: a key of 80 hex digits that is written and read back is  *)
(* printed as the 80 digits that were written.                             *)
C20_RoundTrip ==
    (InKey /\ pc = "read" /\ IsKeyText(wbuf))
        => out = <<wbuf \o <<"\n">>>>

(* C20: a key of 80 hex digits (and white space after them) is decoded     *)
(* most significant word first, the first 8 digits into key[9], the last 8 *)
(* into key[0]; read back it is the 80 digits in that order with the       *)
(* letters in lower case.                                                  *)
C20_RoundTripLower ==
    (InKey /\ pc = "read" /\ IsKeyText(KeyTrim) /\ Len(wbuf) <= 99)
        => /\ ret = Len(wbuf)
           /\ \A n \in 0..9 :
                  rss_key[n + 1]
                      = WordValue(SubSeq(KeyTrim, 8 * (9 - n) + 1, 8 * (9 - n) + 8))
           /\ out = <<[k \in 1..80 |-> ToLower(KeyTrim[k])] \o <<"\n">>>>

C20_Witness ==
    /\ InKey /\ pc = "read" /\ wbuf = KeyText("upper", 80) /\ ret = 80
    /\ out = <<KeyText("lower", 80) \o <<"\n">>>>
    /\ out # <<wbuf \o <<"\n">>>>
    /\ rss_key[10] # rss_key[1]

---------------------------------------------------------------------------
(* The mailbox.                                                            *)

InMbox == file = "mbox"

(* The commands of MboxInputs that are 8 hex numbers and at most a newline *)
(* (and what follows it) after them.                                       *)
MboxWellFormed ==
    {MboxGood, MboxGood \o <<"\n">>, MboxGood \o <<"\n", "z">>,
     <<" ", "0", "x", "1", "f", "\t">> \o MboxGood \o <<"\n">>,
     [k \in 1..17 |-> DecChars[(k % 10) + 1]]
         \o SubSeq(MboxGood, 2, 15) \o <<"\n">>,
     MboxSecond}

Sent(c) == \E m \in mb_sent : m.who = c

(* C21: a caller of mbox_write whose command is well formed and who finds  *)
(* the mailbox not owned by the driver returns -EBUSY and has written no   *)
(* data word and no control word; one who finds it owned by the driver     *)
(* writes the control word only after its 8 data words; a command that     *)
(* does not parse is rejected before the control register is read.         *)
C21_OwnerThenDataThenCtrl ==
    InMbox =>
        \A c \in Callers :
            /\ (mb_seen[c] \notin {<<>>, <<X_MBOWNER_PL>>})
                   => /\ mb_pc[c] = "done" /\ mb_ret[c] = -EBUSY
                      /\ mb_i[c] = 0 /\ ~Sent(c)
            /\ mb_ret[c] = -EBUSY => mb_seen[c] \notin {<<>>, <<X_MBOWNER_PL>>}
            /\ Sent(c) => mb_i[c] = MboxWords /\ mb_seen[c] = <<X_MBOWNER_PL>>
            /\ mb_i[c] > 0 => mb_seen[c] = <<X_MBOWNER_PL>>
            /\ (mb_pc[c] = "done" /\ mb_ret[c] = Len(mb_buf[c]))
                   => Sent(c) /\ mb_buf[c] \in MboxWellFormed
            /\ (mb_pc[c] # "idle" /\ mb_buf[c] \notin MboxWellFormed)
                   => /\ mb_pc[c] = "done" /\ mb_ret[c] \in {-EINVAL, -EFAULT}
                      /\ mb_seen[c] = <<>> /\ mb_i[c] = 0 /\ ~Sent(c)
            /\ mb_seen[c] # <<>> => mb_buf[c] \in MboxWellFormed

C21_Witness ==
    /\ InMbox /\ mb_pc["a"] = "done" /\ mb_ret["a"] = 16
    /\ mb_buf["a"] = MboxGood \o <<"\n">>
    /\ mailbox.owner = X_MBOWNER_FW /\ mailbox.valid
    /\ mailbox.data[8] = [k \in 1..16 |-> IF k = 16 THEN 8 ELSE 0]
    /\ mb_pc["b"] = "done" /\ mb_ret["b"] = -EBUSY /\ mb_i["b"] = 0

(* C29: with callers of mbox_write at the same time no data word is        *)
(* written to a mailbox the firmware owns, the mailbox never holds words   *)
(* of two commands when it is handed over, and at most one caller is past  *)
(* the test of the owner.                                                  *)
C29_MutualExclusion ==
    InMbox =>
        /\ mb_fw = {}
        /\ \A m \in mb_sent : m.data = mb_data[m.who]
        /\ Cardinality({c \in Callers : mb_pc[c] = "writing"}) <= 1

---------------------------------------------------------------------------
(* The memory map.                                                         *)

MemShown == file = "meminfo" /\ pc = "open" /\ mi_out.kind = "map"

(* The regions meminfo_show gives a limit of their own: Tx and Rx payload, *)
(* the eight ULP regions and the on-chip queues.                           *)
ExplicitLimit == {9, 10} \cup (12..19) \cup {23}

(* C22: a region line without a limit of its own ends one below the base   *)
(* of the descriptor that follows it in the sorted mem[] (a hidden one or  *)
(* a hole too), or at 0xffffffff when it is the last; a region with a      *)
(* limit of its own is printed with that limit.                            *)
C22_LimitFromNextBase ==
    MemShown =>
        \A k \in 1..Len(mi_out.regions) :
            LET ok(r, named) ==
                    IF r.idx \in ExplicitLimit
                    THEN r.to = named[r.idx + 1].limit
                    ELSE r.to = IF r.at < mi_out.n
                                THEN Sub32(mi_out.mem[r.at + 1].base, One32)
                                ELSE U32Max
            IN  ok(mi_out.regions[k], mem_named(mi_regs))

(* C23: mem_desc_cmp is negative exactly for a lower base and positive     *)
(* exactly for a higher base, and the sorted ranges and the sorted mem[]   *)
(* are in non-decreasing order of base.                                    *)
C23_SortedByBase ==
    MemShown =>
        LET sign_ok(a, b) ==
                /\ (mem_desc_cmp(a, b) < 0) = Lt32(a.base, b.base)
                /\ (mem_desc_cmp(a, b) > 0) = Lt32(b.base, a.base)
            ordered(arr) ==
                \A k \in 1..(Len(arr) - 1) : ~Lt32(arr[k + 1].base, arr[k].base)
            signs(arr) ==
                \A j, k \in 1..Len(arr) : sign_ok(arr[j], arr[k])
        IN  /\ signs(mi_out.avail) /\ signs(mi_out.mem)
            /\ ordered(mi_out.avail) /\ ordered(mi_out.mem)

(* C26: the count of descriptors written to mem[] is at most its capacity, *)
(* the count of named regions and 3.                                       *)
C26_MemWithinCapacity ==
    file = "meminfo" /\ pc = "open" => mi_out.n <= MemCapacity

---------------------------------------------------------------------------
(* The capturing opens and the memory window lock.                         *)

Shows(h) == SelectSeq(cap_log[h], IsShow)

(* C24: an open whose capture routine fails, or whose buffer cannot be     *)
(* allocated, returns that error with the buffer released and nothing of   *)
(* it ever shown; an open that returns 0 has a full snapshot; devlog_open  *)
(* with an unknown place of the log returns -ENXIO with nothing allocated  *)
(* or read.                                                                *)
C24_CaptureErrorAborts ==
    file = "capture" =>
        \A h \in CapHandlers \ {"mem_read"} :
            /\ cap_pc[h] = "failed" =>
                  /\ cap_ret[h] < 0
                  /\ cap_tab[h].state \in {"none", "freed"}
                  /\ Shows(h) = <<>>
            /\ cap_pc[h] \in {"failed", "open"} /\ cap_rc[h] < 0 =>
                  /\ cap_pc[h] = "failed"
                  /\ cap_ret[h] = cap_rc[h]
            /\ cap_pc[h] = "failed" /\ cap_log[h] = <<>> =>
                  cap_ret[h] \in {-ENOMEM, -ENXIO, -EIO}
            /\ cap_pc[h] = "open" => cap_ret[h] = 0 /\ cap_tab[h].state = "full"
            /\ \A k \in 1..Len(Shows(h)) : Shows(h)[k] = "show_full"
            /\ h = "devlog" /\ cap_in.start = 0 /\ cap_pc[h] # "idle" =>
                  /\ cap_pc[h] = "failed"
                  /\ cap_ret[h] = -ENXIO
                  /\ cap_log[h] = <<>>
                  /\ cap_tab[h] = NoCapTab

C24_Witness ==
    /\ file = "capture"
    /\ cap_pc["cim_ibq"] = "failed"
    /\ cap_rc["cim_ibq"] = -EIO
    /\ cap_tab["cim_ibq"].state = "freed"

(* C25: devlog_open and mem_read hold win0_lock from before the window is  *)
(* pointed until the read through it is over, and at no other time: not    *)
(* when they return, with an error or without, nor while the session is    *)
(* paged; so each reads the memory it pointed the window at.               *)
C25_Win0LockAroundRead ==
    file = "capture" =>
        \A h \in WindowUsers :
            /\ cap_pc[h] \in {"locked", "selected", "read"} <=> win0_lock = <<h>>
            /\ cap_from[h] \in {<<>>, <<h>>}
            /\ \A k \in 1..Len(cap_log[h]) :
                  cap_log[h][k] = "read" =>
                      k > 1 /\ cap_log[h][k - 1] = "lock"
                      /\ (k < Len(cap_log[h]) => cap_log[h][k + 1] = "unlock")

C25_Witness ==
    /\ file = "capture"
    /\ cap_pc["devlog"] = "failed"
    /\ cap_rc["devlog"] = -EIO
    /\ win0_lock = <<"mem_read">>
    /\ cap_pc["mem_read"] = "read"

---------------------------------------------------------------------------
(* The buffer and the pattern arrays of mps_trc_write.                     *)

TrcDone == file = "mps_trc" /\ pc = "done"

(* C27: mps_trc_write uses its buffer s at the indices 0 .. count only,    *)
(* and frees it once on every path that allocated it.                      *)
C27_BufferWithinAllocation ==
    TrcDone =>
        /\ s_mem.size > 0 =>
              /\ s_mem.lo >= 0
              /\ s_mem.hi <= Len(wbuf)
              /\ s_mem.frees = 1
        /\ s_mem.size = 0 => s_mem.frees = 0

(* C28: the parser counts at most 2 * TRACE_LEN nibbles and writes only    *)
(* to the TRACE_LEN / 4 words of tp.data and of tp.mask; a pattern with    *)
(* more digits ends the command with -EFBIG.                               *)
C28_PatternWithinArrays ==
    TrcDone =>
        /\ trc_ext.nib <= 2 * TRACE_LEN
        /\ trc_ext.data_top < TRACE_LEN \div 4
        /\ trc_ext.mask_top < TRACE_LEN \div 4
        /\ (/\ Len(wtoks) = 2
            /\ Len(wtoks[2]) > 2 * TRACE_LEN
            /\ trc_ext.nib > 0) => ret = -EFBIG

C28_Witness ==
    /\ TrcDone
    /\ Len(wtoks) = 2 /\ Len(wtoks[2]) = 2 * TRACE_LEN + 1
    /\ ret = -EFBIG
    /\ trc_ext.nib = 2 * TRACE_LEN
    /\ trc_ext.data_top = (TRACE_LEN \div 4) - 1

---------------------------------------------------------------------------
(* Two readers of the T6 TCAM.                                             *)

(* C30: the words a reader of the T6 TCAM has read for row idx are the Y   *)
(* and the X word of row idx, whatever another reader does meanwhile.      *)
C30_SelectThenReadAtomic ==
    file = "mps_tcam_t6" =>
        \A r \in Readers :
            /\ rd_pc[r] \in {"got_y", "sel_x", "got_x", "done"} =>
                  rd_y[r] = tcam_data(tcam, tcam_ctl_word(rd_idx[r], 0))
            /\ rd_pc[r] \in {"got_x", "done"} =>
                  rd_x[r] = tcam_data(tcam, tcam_ctl_word(rd_idx[r], 1))

===========================================================================
